---- MODULE Spec2Model ----
(***************************************************************************)
(* State-machine model of the orchestration layer of pdfbot:               *)
(*   - Modules/rate_limiter.py : RateLimiter (sliding window per user)     *)
(*   - Modules/core.py, Modules/image_file_handler.py, Modules/pdf_cmd.py, *)
(*     Modules/compress_cmd.py : the two active_tasks registries, the      *)
(*     convert / compress operations and their cancel callbacks            *)
(*                                                                         *)
(*   - Modules/supabase_client.py, Modules/multipdf_cmd.py, main.py :     *)
(*     SupabaseStorage with its in-memory fallback store, the /multipdf    *)
(*     session handlers and the periodic cleanup                           *)
(*   - Modules/redis_session.py, Modules/session_adapter.py :              *)
(*     RedisSessionStorage, command by command, and the adapter that       *)
(*     forwards to it or to SupabaseStorage                                *)
(*                                                                         *)
(* Time is counted in clock ticks of 1/TicksPerSecond seconds, so that a   *)
(* float time.time() with a fractional part has a counterpart here.        *)
(***************************************************************************)
EXTENDS Integers, Sequences, FiniteSets, TLC

VARIABLES
    \* ---- RateLimiter (Modules/rate_limiter.py) ----
    now,              \* the value time.time() returns, in ticks
    max_requests,     \* self.max_requests
    window_seconds,   \* self.window_seconds
    user_requests,    \* self.user_requests : user -> deque of timestamps
    last_cleanup,     \* self.last_cleanup
    rl_log,           \* history: per user, the calls made and what they returned
    rl_env,           \* the environment of the run: who calls, how the clock steps
    rl_jumps,         \* the number of long idle pauses the clock has made
    \* ---- task registries and operations ----
    active_tasks,           \* core.active_tasks : task id -> entry
    compress_active_tasks,  \* compress_cmd.active_tasks : task id -> entry
    ops,                    \* the convert / compress coroutines and where they are
    last_cancel,             \* history: what the last cancel callback met and did
    \* ---- multipdf sessions (supabase_client.py, multipdf_cmd.py, main.py) ----
    clock,            \* int(time.time()) of the session code, in seconds
    use_supabase,     \* USE_SUPABASE and supabase_client
    store,            \* the tables multipdf_sessions and session_images, the
                      \* 'images' bucket, _memory_store and the folders under
                      \* downloads/temp_sessions
    downloads,        \* collect_image_handler calls waiting in download_media
    creating,         \* multipdf_callback_handler calls that are creating a
                      \* PDF, and how far they are
    images_sent,      \* the number of image messages received so far
    last_gc,          \* the time of the last periodic_cleanup cycle
    faults_seen,      \* the number of Supabase / Redis requests that have raised
    \* ---- Redis sessions and the adapter (redis_session.py, session_adapter.py) ----
    redis_enabled,    \* RedisSessionStorage._enabled and redis_client is not None
    redis_keys,       \* the keys of the Redis server: key -> value and expiry time
    adapter,          \* the fields of the SessionStorageAdapter object
    built_with,       \* history: what the adapter was constructed with
    driver,           \* the environment: the callers of the storage and the
                      \* number of calls they have left
    calls,            \* per caller, the storage call it is in and where it is
    last_call         \* history: the storage call that returned last

rl_vars == <<now, max_requests, window_seconds, user_requests, last_cleanup,
             rl_log, rl_env, rl_jumps>>

task_vars == <<active_tasks, compress_active_tasks, ops, last_cancel>>

session_vars == <<clock, use_supabase, store, downloads, creating, images_sent,
                  last_gc, faults_seen>>

backend_vars == <<redis_enabled, redis_keys, adapter, built_with, driver, calls,
                  last_call>>

storage_vars == <<session_vars, backend_vars>>

outside_sessions == <<rl_vars, task_vars, backend_vars>>

vars == <<rl_vars, task_vars, storage_vars>>

-----------------------------------------------------------------------------
(* Bounds of the model *)

TicksPerSecond == 2
MaxSmallRequests == 2
MaxCalls == 4
MaxOps == 2

(* Program constants *)

cleanup_interval == 300
inactive_seconds == 600
pdf_max_requests == 10
pdf_window_seconds == 60
ScenarioSeconds == 5

Users == {1, 2}

\* the windows (seconds) of the small limiters
SmallWindows == {1}

-----------------------------------------------------------------------------
(* Finite maps with a varying domain (Python dict / defaultdict) *)

EmptyMap == [k \in {} |-> 0]

Put(f, k, v) == [x \in (DOMAIN f) \cup {k} |-> IF x = k THEN v ELSE f[x]]

Remove(f, ks) == [x \in (DOMAIN f) \ ks |-> f[x]]

-----------------------------------------------------------------------------
(* RateLimiter *)

Secs(s) == s * TicksPerSecond

\* Python int(): truncation toward zero of a duration given in ticks, in seconds
IntSeconds(ticks) ==
    IF ticks >= 0 THEN ticks \div TicksPerSecond
                  ELSE -((-ticks) \div TicksPerSecond)

\* math.ceil of a duration given in ticks, in seconds
CeilSeconds(ticks) == -((-ticks) \div TicksPerSecond)

\* variant: evicts a timestamp that lies exactly on the window's start, too
RECURSIVE EvictOld_inclusive(_, _)
EvictOld_inclusive(timestamps, window_start) ==
    IF timestamps # <<>> /\ Head(timestamps) <= window_start
    THEN EvictOld_inclusive(Tail(timestamps), window_start)
    ELSE timestamps

\* while timestamps and timestamps[0] < window_start: timestamps.popleft()
RECURSIVE EvictOld(_, _)
EvictOld(timestamps, window_start) ==
    IF timestamps # <<>> /\ Head(timestamps) < window_start
    THEN EvictOld(Tail(timestamps), window_start)
    ELSE timestamps

\* self.user_requests[user_id] of a defaultdict(deque)
WindowOf(requests, user_id) ==
    IF user_id \in DOMAIN requests THEN requests[user_id] ELSE <<>>

\* variant: the remaining time counted in clock ticks, not in seconds
SecondsToWait_in_ticks(oldest_request, t) ==
    (oldest_request + Secs(window_seconds) - t) + 1

\* variant: int(...) without the + 1
SecondsToWait_truncated(oldest_request, t) ==
    IntSeconds(oldest_request + Secs(window_seconds) - t)

\* variant: ceil(...) in place of int(...) + 1
SecondsToWait_ceil(oldest_request, t) ==
    CeilSeconds(oldest_request + Secs(window_seconds) - t)

\* seconds_to_wait = int(oldest_request + self.window_seconds - now) + 1
SecondsToWait(oldest_request, t) ==
    IntSeconds(oldest_request + Secs(window_seconds) - t) + 1

\* the users _cleanup_old_entries removes at time t
UsersToRemove(requests, t) ==
    {u \in DOMAIN requests :
        /\ requests[u] # <<>>
        /\ requests[u][Len(requests[u])] < t - Secs(inactive_seconds)}

CleanupDue(t) == ~(t - last_cleanup < Secs(cleanup_interval))

\* _cleanup_old_entries, on the map as it is after the append
CleanupOldEntries(requests, t) ==
    IF CleanupDue(t) THEN Remove(requests, UsersToRemove(requests, t))
                     ELSE requests

\* variant: <= in place of <
Admits_off_by_one(timestamps) == Len(timestamps) <= max_requests

\* if len(timestamps) < self.max_requests
Admits(timestamps) == Len(timestamps) < max_requests

\* variant: the rejected request is recorded, too
RejectedRequests_recording(requests, user_id, timestamps) ==
    Put(requests, user_id, Append(timestamps, now))

\* the map when check_rate_limit returns (False, seconds_to_wait): the deque of
\* user_id is what the popleft loop has left of it, nothing is appended
RejectedRequests(requests, user_id, timestamps) ==
    Put(requests, user_id, timestamps)

TotalCalls == LET RECURSIVE Sum(_)
                  Sum(S) == IF S = {} THEN 0
                            ELSE LET u == CHOOSE x \in S : TRUE
                                 IN Len(rl_log[u]) + Sum(S \ {u})
              IN Sum(Users)

\* what check_rate_limit does to the limiter it is called on
rate_limit_call(user_id) ==
    /\ user_id \in rl_env.callers
    /\ TotalCalls < rl_env.max_calls
    /\ LET window_start == now - Secs(window_seconds)
           timestamps == EvictOld(WindowOf(user_requests, user_id), window_start)
       IN IF Admits(timestamps)
          THEN /\ user_requests' =
                     CleanupOldEntries(Put(user_requests, user_id, Append(timestamps, now)), now)
               /\ last_cleanup' = IF CleanupDue(now) THEN now ELSE last_cleanup
               /\ rl_log' = [rl_log EXCEPT ![user_id] =
                     Append(@, [at |-> now, allowed |-> TRUE, wait |-> 0])]
          ELSE /\ user_requests' = RejectedRequests(user_requests, user_id, timestamps)
               /\ last_cleanup' = last_cleanup
               /\ rl_log' = [rl_log EXCEPT ![user_id] =
                     Append(@, [at |-> now, allowed |-> FALSE,
                                wait |-> SecondsToWait(Head(timestamps), now)])]
    /\ UNCHANGED <<now, max_requests, window_seconds, rl_env, rl_jumps>>

\* the first value check_rate_limit(user_id) would return now
is_allowed(user_id) ==
    Admits(EvictOld(WindowOf(user_requests, user_id), now - Secs(window_seconds)))

check_rate_limit(user_id) ==
    /\ rate_limit_call(user_id)
    /\ UNCHANGED <<task_vars, storage_vars>>

\* get_user_stats: self.user_requests[user_id] of the defaultdict makes an
\* entry for a user it does not hold, and the popleft loop runs on it; the
\* dictionary it returns is built from the length of what is left
get_user_stats(user_id) ==
    /\ user_id \in rl_env.callers
    /\ LET window_start == now - Secs(window_seconds)
           timestamps == EvictOld(WindowOf(user_requests, user_id), window_start)
       IN user_requests' = Put(user_requests, user_id, timestamps)
    /\ UNCHANGED <<now, max_requests, window_seconds, last_cleanup, rl_log,
                   rl_env, rl_jumps>>
    /\ UNCHANGED <<task_vars, storage_vars>>

\* The clock: time.time() moves forward between two calls. The short steps
\* of a run add up to at most its horizon; a long pause may fall among them.
IdlePause == Secs(inactive_seconds) + 1

Tick ==
    /\ \E d \in {rl_env.clock_step, TicksPerSecond} :
         /\ now + d - rl_jumps * IdlePause <= Secs(rl_env.horizon)
         /\ now' = now + d
    /\ UNCHANGED <<max_requests, window_seconds, user_requests, last_cleanup,
                   rl_log, rl_env, rl_jumps>>
    /\ UNCHANGED <<task_vars, storage_vars>>

\* a pause of more than ten minutes
IdleJump ==
    /\ rl_jumps < rl_env.max_jumps
    /\ now' = now + IdlePause
    /\ rl_jumps' = rl_jumps + 1
    /\ UNCHANGED <<max_requests, window_seconds, user_requests, last_cleanup,
                   rl_log, rl_env>>
    /\ UNCHANGED <<task_vars, storage_vars>>

\* The limiters of the runs: small ones explored with every user and a
\* sub-second clock, and pdf_rate_limiter with one user and a clock of seconds
SmallRuns ==
    {[max_requests |-> n, window_seconds |-> w, callers |-> Users,
      clock_step |-> 1, horizon |-> w + 2,
      max_calls |-> MaxCalls, max_jumps |-> 1] :
        n \in 1..MaxSmallRequests, w \in SmallWindows}

PdfRun ==
    [max_requests |-> pdf_max_requests, window_seconds |-> pdf_window_seconds,
     callers |-> {1}, clock_step |-> TicksPerSecond, horizon |-> ScenarioSeconds,
     max_calls |-> pdf_max_requests + 1, max_jumps |-> 0]

\* RateLimiter.__init__ for the limiter and the environment of run r
RateLimiterInit(r) ==
    /\ now = 0
    /\ max_requests = r.max_requests
    /\ window_seconds = r.window_seconds
    /\ rl_env = [callers |-> r.callers, clock_step |-> r.clock_step,
                 horizon |-> r.horizon, max_calls |-> r.max_calls,
                 max_jumps |-> r.max_jumps]
    /\ user_requests = EmptyMap
    /\ last_cleanup = 0
    /\ rl_log = [u \in Users |-> <<>>]
    /\ rl_jumps = 0

-----------------------------------------------------------------------------
(* Task registries: core.active_tasks and compress_cmd.active_tasks.        *)
(* Strings that the code splits or strips are sequences of their            *)
(* "_"-separated parts.                                                     *)

\* the messages a command can reply to: photos, image documents, PDFs
PhotoMessages == {"11"}
DocMessages == {"12"}
PdfMessages == {"13"}

\* the users who press a compression button, and the int(time.time()) stamps
\* compress_command_handler puts in the ids it generates
UserTokens == {"1"}
Stamps == {"0", "1"}

OpIds == 1..MaxOps

\* task_id = f"convert_{message.reply_to_message.id}"
PhotoTaskId(m) == <<"convert", m>>

\* task_id = f"convert_doc_{message.reply_to_message.id}"
DocTaskId(m) == <<"convert", "doc", m>>

\* task_id = f"{message.from_user.id}_{int(time.time())}"
GeneratedCompressId(user, stamp) == <<user, stamp>>

\* callback_data = f"compress_{power}_{message.reply_to_message.id}_{task_id}"
CompressButtonData(power, m, generated) == <<"compress", power, m>> \o generated

\* parts = data.split("_"); task_id = parts[3] if len(parts) > 3 else "unknown"
CompressCallbackTaskId(data) == IF Len(data) > 3 THEN <<data[4]>> ELSE <<"unknown">>

\* callback_data = f"cancel_convert_{task_id}" / f"cancel_compress_{task_id}"
CancelButtonData(registry, task_id) == <<"cancel", registry>> \o task_id

\* task_id = data.replace("cancel_convert_", "") / ("cancel_compress_", "")
CancelCallbackTaskId(data) == SubSeq(data, 3, Len(data))

\* file_name=f"temp_{document.file_id}.pdf"
DownloadPath(m) == <<"temp", m>>

\* hybrid_compress_pdf: task_id = f"{input_path}_task"
HybridTaskId(input_path) == input_path \o <<"task">>

\* every id a cancel button can carry
TaskIds ==
    {PhotoTaskId(m) : m \in PhotoMessages} \cup {DocTaskId(m) : m \in DocMessages}
        \cup {<<u>> : u \in UserTokens}

\* {'cancelled': False, 'progress': 0}
NewEntry == [cancelled |-> FALSE, progress |-> 0, download_path |-> <<>>]

\* active_tasks[task_id] = {'cancelled': False, 'progress': 0}
Register(registry, task_id) == Put(registry, task_id, NewEntry)

\* if task_id in active_tasks: del active_tasks[task_id]
Release(registry, task_id) == Remove(registry, {task_id})

\* task_id in active_tasks and active_tasks[task_id].get('cancelled', False)
IsCancelled(registry, task_id) ==
    task_id \in DOMAIN registry /\ registry[task_id].cancelled

\* variant: the cancel callback takes the entry out of the registry
SetCancelled_releasing(registry, task_id) == Remove(registry, {task_id})

\* variant: the flag is set without testing that the id is registered
SetCancelled_unguarded(registry, task_id) ==
    Put(registry, task_id, [NewEntry EXCEPT !.cancelled = TRUE])

\* if task_id in active_tasks: active_tasks[task_id]['cancelled'] = True
SetCancelled(registry, task_id) ==
    IF task_id \in DOMAIN registry
    THEN [registry EXCEPT ![task_id].cancelled = TRUE]
    ELSE registry

\* file follows downloads/temp_{file_id}.jpg or .pdf of a running operation:
\* "there" once download_media has written it, "gone" when something else
\* has removed it since
IdleOp == [kind |-> "none", task_id |-> <<>>, message |-> "", pc |-> "idle",
           outcome |-> "none", uploaded |-> "none", error |-> "none",
           cancel |-> "no", file |-> "none"]

Running(op) == op.pc \notin {"idle", "done"}

RegistryName(op) == IF op.kind = "compress" THEN "compress" ELSE "convert"

\* slots are taken in order
CanStart(i) ==
    ops[i].pc = "idle" /\ (IF i = 1 THEN TRUE ELSE ops[i - 1].pc # "idle")

\* history: an operation whose flag a cancel callback has set ("set") runs a
\* cancellation check ("checked")
Checked(op) == IF op.cancel = "set" THEN [op EXCEPT !.cancel = "checked"] ELSE op

Finish(op, outcome, error) ==
    [op EXCEPT !.pc = "done", !.outcome = outcome, !.error = error, !.file = "none"]

TasksInit ==
    /\ active_tasks = EmptyMap
    /\ compress_active_tasks = EmptyMap
    /\ ops = [i \in OpIds |-> IdleOp]
    /\ last_cancel = [handled |-> FALSE, answered |-> FALSE, finished |-> FALSE]

\* ---- convert_image_to_pdf (core.py) and convert_image_file_to_pdf
\* ---- (image_file_handler.py); one action per stretch of code between awaits

\* registration and the first progress message
register_convert(i, kind, m) ==
    /\ CanStart(i)
    /\ LET task_id == IF kind = "photo" THEN PhotoTaskId(m) ELSE DocTaskId(m)
       IN /\ active_tasks' = Register(active_tasks, task_id)
          /\ ops' = [ops EXCEPT ![i] =
                [IdleOp EXCEPT !.kind = kind, !.task_id = task_id, !.message = m,
                               !.pc = "sent0"]]
    /\ UNCHANGED <<compress_active_tasks, last_cancel>>

StartConvert(i, kind, m) ==
    /\ register_convert(i, kind, m)
    /\ UNCHANGED <<rl_vars, storage_vars>>

\* pdf_command_handler and image_file_handler: pdf_rate_limiter is asked
\* first; a rejected user gets the wait message and nothing is started
pdf_command_handler(i, kind, m, user_id) ==
    /\ CanStart(i)
    /\ rate_limit_call(user_id)
    /\ IF is_allowed(user_id) THEN register_convert(i, kind, m)
       ELSE UNCHANGED task_vars
    /\ UNCHANGED storage_vars

\* a cancellation check of a convert operation: "cancelled by user" and
\* return, the entry left where it is; or on to the state next
ConvertCheck(i, next) ==
    IF IsCancelled(active_tasks, ops[i].task_id)
    THEN ops' = [ops EXCEPT ![i] = Finish(Checked(ops[i]), "cancelled", "none")]
    ELSE ops' = [ops EXCEPT ![i] = [Checked(ops[i]) EXCEPT !.pc = next]]

\* the check before the download
ConvertBeforeDownload(i) ==
    /\ ops[i].kind \in {"photo", "doc"}
    /\ ops[i].pc = "sent0"
    /\ ConvertCheck(i, "downloading")
    /\ UNCHANGED <<active_tasks, compress_active_tasks, last_cancel>>
    /\ UNCHANGED <<rl_vars, storage_vars>>

\* download_media returns a path, returns None, or raises; the check after it
ConvertAfterDownload(i) ==
    /\ ops[i].kind \in {"photo", "doc"}
    /\ ops[i].pc = "downloading"
    /\ \E result \in {"ok", "none", "timeout", "error"} :
         IF result \in {"timeout", "error"}
         THEN /\ ops' = [ops EXCEPT ![i] = Finish(ops[i], "failed", result)]
              /\ active_tasks' = Release(active_tasks, ops[i].task_id)
         ELSE /\ IF result = "none" /\ ~IsCancelled(active_tasks, ops[i].task_id)
                 THEN ops' = [ops EXCEPT ![i] = Finish(Checked(ops[i]), "failed", "download")]
                 ELSE IF result = "ok" /\ ~IsCancelled(active_tasks, ops[i].task_id)
                 THEN ops' = [ops EXCEPT ![i] =
                         [Checked(ops[i]) EXCEPT !.pc = "converting", !.file = "there"]]
                 ELSE ConvertCheck(i, "converting")
              /\ active_tasks' = active_tasks
    /\ UNCHANGED <<compress_active_tasks, last_cancel>>
    /\ UNCHANGED <<rl_vars, storage_vars>>

\* the check before the conversion; Image.open / normalize succeed, give None
\* or raise; Image.open raises when the downloaded file is gone
ConvertTransform(i) ==
    /\ ops[i].kind \in {"photo", "doc"}
    /\ ops[i].pc = "converting"
    /\ IF IsCancelled(active_tasks, ops[i].task_id)
       THEN /\ ConvertCheck(i, "converting")
            /\ active_tasks' = active_tasks
       ELSE \E result \in IF ops[i].file = "gone" THEN {"error"}
                           ELSE {"ok", "none", "error"} :
              IF result = "ok"
              THEN /\ ConvertCheck(i, "optimizing")
                   /\ active_tasks' = active_tasks
              ELSE /\ ops' = [ops EXCEPT ![i] =
                         Finish(Checked(ops[i]), "failed",
                                IF result = "none" THEN "transform" ELSE "error")]
                   /\ active_tasks' = Release(active_tasks, ops[i].task_id)
    /\ UNCHANGED <<compress_active_tasks, last_cancel>>
    /\ UNCHANGED <<rl_vars, storage_vars>>

\* the checks before the JPEG and the PDF are written
ConvertBuildPdf(i) ==
    /\ ops[i].kind \in {"photo", "doc"}
    /\ ops[i].pc = "optimizing"
    /\ ConvertCheck(i, "pre_upload")
    /\ UNCHANGED <<active_tasks, compress_active_tasks, last_cancel>>
    /\ UNCHANGED <<rl_vars, storage_vars>>

\* the final check before the upload
ConvertPreUpload(i) ==
    /\ ops[i].kind \in {"photo", "doc"}
    /\ ops[i].pc = "pre_upload"
    /\ ConvertCheck(i, "uploading")
    /\ UNCHANGED <<active_tasks, compress_active_tasks, last_cancel>>
    /\ UNCHANGED <<rl_vars, storage_vars>>

\* reply_document has returned: files removed, entry removed
ConvertUploaded(i) ==
    /\ ops[i].kind \in {"photo", "doc"}
    /\ ops[i].pc = "uploading"
    /\ ops' = [ops EXCEPT ![i] =
          Finish([ops[i] EXCEPT !.uploaded = "output"], "success", "none")]
    /\ active_tasks' = Release(active_tasks, ops[i].task_id)
    /\ UNCHANGED <<compress_active_tasks, last_cancel>>
    /\ UNCHANGED <<rl_vars, storage_vars>>

\* ---- the progress messages: create_progress_bar(percentage) is sent or
\* ---- edited in as an operation enters a stage

\* the percentage of the last progress message of a running operation:
\* convert 0 (downloading), 30 (converting), 50 (optimizing), 90 (finalizing
\* and uploading); compress 0 (downloading), 30 (compressing), 80 (uploading)
Reported(op) ==
    IF op.kind = "compress"
    THEN CASE op.pc = "downloading" -> 0
           [] op.pc = "compressing" -> 30
           [] op.pc = "uploading" -> 80
    ELSE CASE op.pc \in {"sent0", "downloading"} -> 0
           [] op.pc = "converting" -> 30
           [] op.pc = "optimizing" -> 50
           [] op.pc \in {"pre_upload", "uploading"} -> 90

\* ---- handle_compression_callback / perform_compression (compress_cmd.py)

\* a compression button is pressed: the task id is read from the button's
\* data, the task is registered, the progress message is sent
StartCompress(i, user, stamp, m) ==
    /\ CanStart(i)
    /\ LET data == CompressButtonData("3", m, GeneratedCompressId(user, stamp))
           task_id == CompressCallbackTaskId(data)
       IN /\ compress_active_tasks' = Register(compress_active_tasks, task_id)
          /\ ops' = [ops EXCEPT ![i] =
                [IdleOp EXCEPT !.kind = "compress", !.task_id = task_id,
                               !.message = m, !.pc = "downloading"]]
    /\ UNCHANGED <<active_tasks, last_cancel>>
    /\ UNCHANGED <<rl_vars, storage_vars>>

\* download_media returns a path, returns None, or raises; then
\* "if active_tasks[task_id]['cancelled']", which raises KeyError on an id
\* that is not registered; the finally block releases the task on every return
CompressAfterDownload(i) ==
    /\ ops[i].kind = "compress"
    /\ ops[i].pc = "downloading"
    /\ \E result \in {"ok", "none", "error"} :
         LET task_id == ops[i].task_id IN
         IF result \in {"none", "error"}
         THEN /\ ops' = [ops EXCEPT ![i] =
                    Finish(ops[i], "failed", IF result = "none" THEN "download" ELSE "error")]
              /\ compress_active_tasks' = Release(compress_active_tasks, task_id)
         ELSE IF task_id \notin DOMAIN compress_active_tasks
         THEN /\ ops' = [ops EXCEPT ![i] = Finish(Checked(ops[i]), "failed", "KeyError")]
              /\ compress_active_tasks' = Release(compress_active_tasks, task_id)
         ELSE IF compress_active_tasks[task_id].cancelled
         THEN /\ ops' = [ops EXCEPT ![i] = Finish(Checked(ops[i]), "cancelled", "none")]
              /\ compress_active_tasks' = Release(compress_active_tasks, task_id)
         ELSE /\ ops' = [ops EXCEPT ![i] =
                    [Checked(ops[i]) EXCEPT !.pc = "compressing", !.file = "there"]]
              /\ compress_active_tasks' = compress_active_tasks
    /\ UNCHANGED <<active_tasks, last_cancel>>
    /\ UNCHANGED <<rl_vars, storage_vars>>

\* active_tasks[task_id]['download_path'] = downloaded_path, then
\* hybrid_compress_pdf, whose page loop checks the id f"{input_path}_task";
\* without success the original document is sent; os.path.getsize(input_path)
\* raises when the downloaded file is gone, and the except clause reports it
CompressRun(i) ==
    /\ ops[i].kind = "compress"
    /\ ops[i].pc = "compressing"
    /\ LET task_id == ops[i].task_id
           path == DownloadPath(ops[i].message)
       IN IF task_id \notin DOMAIN compress_active_tasks
          THEN /\ ops' = [ops EXCEPT ![i] = Finish(ops[i], "failed", "KeyError")]
               /\ compress_active_tasks' = compress_active_tasks
          ELSE IF ops[i].file = "gone"
          THEN /\ ops' = [ops EXCEPT ![i] = Finish(Checked(ops[i]), "failed", "error")]
               /\ compress_active_tasks' =
                     Release([compress_active_tasks EXCEPT ![task_id].download_path = path],
                             task_id)
          ELSE LET stored == [compress_active_tasks EXCEPT ![task_id].download_path = path]
               IN \E compressed \in BOOLEAN :
                    LET success == compressed /\ ~IsCancelled(stored, HybridTaskId(path))
                    IN IF success
                       THEN /\ ops' = [ops EXCEPT ![i] =
                                  [Checked(ops[i]) EXCEPT !.pc = "uploading"]]
                            /\ compress_active_tasks' = stored
                       ELSE /\ ops' = [ops EXCEPT ![i] =
                                  Finish([Checked(ops[i]) EXCEPT !.uploaded = "original"],
                                         "sent_original", "none")]
                            /\ compress_active_tasks' = Release(stored, task_id)
    /\ UNCHANGED <<active_tasks, last_cancel>>
    /\ UNCHANGED <<rl_vars, storage_vars>>

\* reply_document has returned: files removed; finally: entry removed
CompressUploaded(i) ==
    /\ ops[i].kind = "compress"
    /\ ops[i].pc = "uploading"
    /\ ops' = [ops EXCEPT ![i] =
          Finish([ops[i] EXCEPT !.uploaded = "output"], "success", "none")]
    /\ compress_active_tasks' = Release(compress_active_tasks, ops[i].task_id)
    /\ UNCHANGED <<active_tasks, last_cancel>>
    /\ UNCHANGED <<rl_vars, storage_vars>>

\* ---- the cancel buttons: handle_convert_callback (pdf_cmd.py) and the
\* ---- cancel branch of handle_compression_callback (compress_cmd.py)

\* history: the running operations whose flag the callback sets
MarkCancelled(registry_name, registry, task_id) ==
    [i \in OpIds |->
        IF /\ task_id \in DOMAIN registry
           /\ Running(ops[i])
           /\ RegistryName(ops[i]) = registry_name
           /\ ops[i].task_id = task_id
           /\ ops[i].cancel = "no"
        THEN [ops[i] EXCEPT !.cancel = "set"]
        ELSE ops[i]]

\* history: an operation on this id has already returned
Finished(registry_name, task_id) ==
    \E i \in OpIds : /\ ops[i].pc = "done"
                     /\ RegistryName(ops[i]) = registry_name
                     /\ ops[i].task_id = task_id

\* callback_query.answer("... cancelled!") is sent inside the "if"
CancelAnswered(registry, task_id) == task_id \in DOMAIN registry

CancelConvert(t) ==
    /\ LET task_id == CancelCallbackTaskId(CancelButtonData("convert", t))
       IN /\ active_tasks' = SetCancelled(active_tasks, task_id)
          /\ ops' = MarkCancelled("convert", active_tasks, task_id)
          /\ last_cancel' =
                [handled |-> TRUE,
                 answered |-> CancelAnswered(active_tasks, task_id),
                 finished |-> Finished("convert", task_id)]
    /\ UNCHANGED compress_active_tasks
    /\ UNCHANGED <<rl_vars, storage_vars>>

CancelCompress(t) ==
    /\ LET task_id == CancelCallbackTaskId(CancelButtonData("compress", t))
       IN /\ compress_active_tasks' = SetCancelled(compress_active_tasks, task_id)
          /\ ops' = MarkCancelled("compress", compress_active_tasks, task_id)
          /\ last_cancel' =
                [handled |-> TRUE,
                 answered |-> CancelAnswered(compress_active_tasks, task_id),
                 finished |-> Finished("compress", task_id)]
    /\ UNCHANGED active_tasks
    /\ UNCHANGED <<rl_vars, storage_vars>>

-----------------------------------------------------------------------------
(* SupabaseStorage and its in-memory fallback store (supabase_client.py).   *)
(* Its methods are async but never suspend: each call is one atomic step.   *)
(* A Supabase request may raise; the code catches it and falls back to      *)
(* _memory_store. Requests that the tables themselves refuse also raise: a  *)
(* second row with the session_id of an existing session, an image row of   *)
(* a session that has no row (session_images is deleted by CASCADE with its *)
(* session), an upload to a storage path that is already taken.             *)

\* step of the session clock, in seconds, and the number of steps explored
ClockStepSeconds == 3600
MaxClockSteps == 1
MaxSessions == 2
MaxImages == 2
MaxFaults == 1

session_ttl == 1800
gc_interval == 1800

SessionUsers == {1}

None == <<>>

\* session_id = f"{user_id}_{int(time.time())}"
SessionId(user_id, t) == <<user_id, t>>

\* f"session_{session_id}"
MemKey(session_id) == <<"session">> \o session_id

\* key.replace('session_', '')
MemSessionId(key) == SubSeq(key, 2, Len(key))

\* storage_path = f"sessions/{session_id}/{order}.jpg"
StoragePath(session_id, order) == <<"sessions">> \o session_id \o <<order>>

EmptyStore ==
    [sessions |-> EmptyMap, images |-> <<>>, blobs |-> EmptyMap, mem |-> <<>>,
     temp |-> {}, files |-> {}]

\* the position of a key in the dict (insertion order), 0 if absent
MemIndex(mem, key) ==
    IF \E i \in 1..Len(mem) : mem[i].key = key
    THEN CHOOSE i \in 1..Len(mem) : mem[i].key = key
    ELSE 0

\* _memory_store[key] = value : an existing key keeps its position
MemPut(mem, entry) ==
    IF MemIndex(mem, entry.key) = 0
    THEN Append(mem, entry)
    ELSE [mem EXCEPT ![MemIndex(mem, entry.key)] = entry]

\* _memory_store.pop(key, None)
MemPop(mem, key) == SelectSeq(mem, LAMBDA e : e.key # key)

\* the ids of the sessions held in the table or in _memory_store
StoredSessions(st) ==
    DOMAIN st.sessions \cup {MemSessionId(st.mem[i].key) : i \in 1..Len(st.mem)}

\* the faults a request can meet
Faults(points) ==
    IF use_supabase /\ faults_seen < MaxFaults THEN {"none"} \cup points ELSE {"none"}

\* the requests of one handler call that raised are counted
Faulted(faults) ==
    LET raised == Cardinality({k \in DOMAIN faults : faults[k] # "none"})
    IN /\ faults_seen + raised <= MaxFaults
       /\ faults_seen' = faults_seen + raised

\* SupabaseStorage.create_session
create_session(st, user_id, t, fault) ==
    LET session_id == SessionId(user_id, t)
        in_memory == [st EXCEPT !.mem = MemPut(st.mem,
                         [key |-> MemKey(session_id), user_id |-> user_id,
                          status |-> "collecting", images |-> <<>>, created_at |-> t])]
    IN IF use_supabase /\ fault = "none" /\ session_id \notin DOMAIN st.sessions
       THEN [st EXCEPT !.sessions = Put(st.sessions, session_id,
                [user_id |-> user_id, status |-> "collecting",
                 created_at |-> t, updated_at |-> t])]
       ELSE in_memory

\* the except branch and the else branch of add_image
add_image_to_memory(st, session_id, image_path) ==
    LET i == MemIndex(st.mem, MemKey(session_id))
    IN IF i = 0 THEN st
       ELSE [st EXCEPT !.mem[i].images = Append(@, image_path)]

\* SupabaseStorage.add_image (it returns True on every path)
add_image(st, session_id, image_path, order, fault) ==
    LET storage_path == StoragePath(session_id, order)
        uploaded == [st EXCEPT !.blobs = Put(st.blobs, storage_path, image_path)]
    IN IF ~use_supabase THEN add_image_to_memory(st, session_id, image_path)
       ELSE IF fault = "upload" \/ storage_path \in DOMAIN st.blobs
       THEN add_image_to_memory(st, session_id, image_path)
       ELSE IF fault = "insert" \/ session_id \notin DOMAIN st.sessions
       THEN add_image_to_memory(uploaded, session_id, image_path)
       ELSE [uploaded EXCEPT !.images = Append(@,
                [session_id |-> session_id, image_path |-> storage_path,
                 image_order |-> order])]

\* .order('image_order')
RECURSIVE OrderByImageOrder(_)
OrderByImageOrder(rows) ==
    IF rows = <<>> THEN <<>>
    ELSE LET least == CHOOSE i \in 1..Len(rows) :
                         /\ \A j \in 1..Len(rows) : rows[i].image_order <= rows[j].image_order
                         /\ \A j \in 1..(i - 1) : rows[j].image_order # rows[i].image_order
         IN <<rows[least]>> \o
            OrderByImageOrder(SubSeq(rows, 1, least - 1) \o SubSeq(rows, least + 1, Len(rows)))

\* the rows of session_images of one session
ImageRows(st, session_id) == SelectSeq(st.images, LAMBDA r : r.session_id = session_id)

\* _memory_store[f"session_{session_id}"]['images'], [] without the key
MemoryImages(st, session_id) ==
    LET i == MemIndex(st.mem, MemKey(session_id))
    IN IF i = 0 THEN <<>> ELSE st.mem[i].images

\* SupabaseStorage.get_session_images: the images, named by what was added
get_session_images(st, session_id, fault) ==
    LET rows == OrderByImageOrder(ImageRows(st, session_id))
    IN IF /\ use_supabase /\ fault = "none" /\ rows # <<>>
          /\ \A k \in 1..Len(rows) : rows[k].image_path \in DOMAIN st.blobs
       THEN [k \in 1..Len(rows) |-> st.blobs[rows[k].image_path]]
       ELSE MemoryImages(st, session_id)

\* get_session_images returns copies it has downloaded into the folder of the
\* session, not the paths kept in _memory_store
InTempFolder(st, session_id, fault) ==
    /\ use_supabase /\ fault = "none" /\ ImageRows(st, session_id) # <<>>
    /\ \A k \in 1..Len(ImageRows(st, session_id)) :
          ImageRows(st, session_id)[k].image_path \in DOMAIN st.blobs

\* get_session_images, os.makedirs(session_temp_folder, exist_ok=True): once
\* the select has returned rows the folder downloads/temp_sessions/{session_id}
\* is there, also when a download raises afterwards
session_temp_folder(st, session_id, fault) ==
    IF use_supabase /\ fault = "none" /\ ImageRows(st, session_id) # <<>>
    THEN [st EXCEPT !.temp = @ \cup {session_id}]
    ELSE st

\* os.remove / AsyncFileHandler.delete_file of downloaded files: the paths
\* that name a file in downloads/ lose it
remove_files(st, paths) ==
    [st EXCEPT !.files = @ \ {paths[k] : k \in 1..Len(paths)}]

\* shutil.rmtree(f"downloads/temp_sessions/{session_id}", ignore_errors=True)
rmtree(st, session_id) == [st EXCEPT !.temp = @ \ {session_id}]

\* SupabaseStorage.update_session_status
update_session_status(st, session_id, status, t, fault) ==
    LET in_table ==
            IF use_supabase /\ fault = "none" /\ session_id \in DOMAIN st.sessions
            THEN [st EXCEPT !.sessions[session_id] =
                     [@ EXCEPT !.status = status, !.updated_at = t, !.created_at = t]]
            ELSE st
        i == MemIndex(st.mem, MemKey(session_id))
    IN IF i = 0 THEN in_table
       ELSE [in_table EXCEPT !.mem[i] = [@ EXCEPT !.status = status, !.created_at = t]]

\* a delete_session whose delete request lacks the .eq('session_id', ...) filter
delete_from_tables_unfiltered(st, session_id, fault) ==
    [st EXCEPT !.sessions = EmptyMap, !.images = <<>>]

\* the table part of delete_session: the storage files of the session's
\* image rows, then the session row and, by CASCADE, its image rows
delete_from_tables(st, session_id, fault) ==
    LET paths == {ImageRows(st, session_id)[k].image_path :
                     k \in 1..Len(ImageRows(st, session_id))}
        files_removed == [st EXCEPT !.blobs = Remove(st.blobs, paths)]
    IN IF fault = "select" THEN st
       ELSE IF fault = "delete" THEN files_removed
       ELSE [files_removed EXCEPT
                !.sessions = Remove(st.sessions, {session_id}),
                !.images = SelectSeq(st.images, LAMBDA r : r.session_id # session_id)]

\* SupabaseStorage.delete_session
delete_session(st, session_id, fault) ==
    LET tables == IF use_supabase THEN delete_from_tables(st, session_id, fault) ELSE st
    IN [tables EXCEPT !.mem = MemPop(tables.mem, MemKey(session_id))]

\* the statuses get_user_session looks for
ActiveStatuses == {"collecting", "awaiting_selection"}

\* the rows the query of get_user_session matches
ActiveRows(st, user_id) ==
    {sid \in DOMAIN st.sessions :
        st.sessions[sid].user_id = user_id /\ st.sessions[sid].status \in ActiveStatuses}

\* the memory scan of get_user_session: the first matching key of the dict
MemoryUserSession(st, user_id) ==
    LET matches == {i \in 1..Len(st.mem) :
                       st.mem[i].user_id = user_id /\ st.mem[i].status \in ActiveStatuses}
    IN IF matches = {} THEN None
       ELSE MemSessionId(st.mem[CHOOSE i \in matches : \A j \in matches : i <= j].key)

\* SupabaseStorage.get_user_session: what the call can return
\* (order by created_at desc, limit 1; rows of equal created_at in any order)
get_user_session(st, user_id, fault) ==
    IF use_supabase /\ fault = "none"
    THEN IF ActiveRows(st, user_id) = {} THEN {None}
         ELSE {sid \in ActiveRows(st, user_id) :
                  \A other \in ActiveRows(st, user_id) :
                      st.sessions[other].created_at <= st.sessions[sid].created_at}
    ELSE {MemoryUserSession(st, user_id)}

\* SupabaseStorage.cleanup_old_sessions (no caller in the repository): all
\* completed rows, the other rows older than max_age_seconds, and the
\* entries of _memory_store older than max_age_seconds
RECURSIVE delete_sessions(_, _)
delete_sessions(st, session_ids) ==
    IF session_ids = {} THEN st
    ELSE LET sid == CHOOSE x \in session_ids : TRUE
         IN delete_sessions(delete_session(st, sid, "none"), session_ids \ {sid})

\* fault "delete_completed": the delete of the completed rows raises and the
\* except clause ends the whole table part; fault "select": the select of the
\* other rows raises, after the completed rows are gone
cleanup_old_sessions(st, t, max_age_seconds, fault) ==
    LET completed == {sid \in DOMAIN st.sessions : st.sessions[sid].status = "completed"}
        kept == [st EXCEPT
                    !.sessions = Remove(st.sessions, completed),
                    !.images = SelectSeq(st.images, LAMBDA r : r.session_id \notin completed)]
        old == {sid \in DOMAIN kept.sessions :
                   t - kept.sessions[sid].created_at > max_age_seconds}
        tables == IF ~use_supabase \/ fault = "delete_completed" THEN st
                  ELSE IF fault = "select" THEN kept
                  ELSE delete_sessions(kept, old)
    IN [tables EXCEPT !.mem =
           SelectSeq(tables.mem, LAMBDA e : ~(t - e.created_at > max_age_seconds))]

-----------------------------------------------------------------------------
(* The /multipdf handlers (multipdf_cmd.py) and periodic_cleanup (main.py). *)
(* main.py builds the adapter before redis_storage.connect(), so the        *)
(* adapter of the running bot forwards to SupabaseStorage.                  *)

\* multipdf_command_handler, after the rate limit has admitted the user:
\* an active session found is deleted, then a new one is created
StartSession(u) ==
    /\ Cardinality(StoredSessions(store)) < MaxSessions
    /\ \E f1 \in Faults({"select"}), f2 \in Faults({"select", "delete"}),
          f3 \in Faults({"insert"}) :
         \E existing_session \in get_user_session(store, u, f1) :
            LET cleared == IF existing_session # None
                           THEN rmtree(delete_session(store, existing_session, f2),
                                       existing_session)
                           ELSE store
            IN /\ store' = create_session(cleared, u, clock, f3)
               /\ Faulted(<<f1, f2, f3>>)
    /\ UNCHANGED <<clock, use_supabase, downloads, creating, images_sent, last_gc>>
    /\ UNCHANGED outside_sessions

\* collect_image_handler up to download_media; without a session it returns
CollectImage(u) ==
    /\ images_sent < MaxImages
    /\ \E f1 \in Faults({"select"}) :
         \E session_id \in get_user_session(store, u, f1) :
            /\ session_id # None
            /\ downloads' = downloads \cup
                  {[session_id |-> session_id, image |-> images_sent + 1,
                    pc |-> "download"]}
            /\ Faulted(<<f1>>)
    /\ images_sent' = images_sent + 1
    /\ UNCHANGED <<clock, use_supabase, store, creating, last_gc>>
    /\ UNCHANGED outside_sessions

\* collect_image_handler after download_media has written
\* downloads/temp_{file_id}.jpg: order = len(current_images), then add_image,
\* then asyncio.sleep(0.2)
CollectDownloaded(d) ==
    /\ d \in downloads
    /\ d.pc = "download"
    /\ \E downloaded \in BOOLEAN :
         IF ~downloaded
         THEN /\ store' = store
              /\ faults_seen' = faults_seen
              /\ downloads' = downloads \ {d}
         ELSE \E f1 \in Faults({"select"}), f2 \in Faults({"upload", "insert"}) :
                LET current_images == get_session_images(store, d.session_id, f1)
                    order == Len(current_images)
                    written == [store EXCEPT !.files = @ \cup {d.image}]
                IN /\ store' = add_image(session_temp_folder(written, d.session_id, f1),
                                         d.session_id, d.image, order, f2)
                   /\ downloads' = (downloads \ {d}) \cup {[d EXCEPT !.pc = "added"]}
                   /\ Faulted(<<f1, f2>>)
    /\ UNCHANGED <<clock, use_supabase, creating, images_sent, last_gc>>
    /\ UNCHANGED outside_sessions

\* collect_image_handler after the sleep: the downloaded file is deleted
\* when it exists, whatever add_image did with it
CollectCleaned(d) ==
    /\ d \in downloads
    /\ d.pc = "added"
    /\ downloads' = downloads \ {d}
    /\ store' = remove_files(store, <<d.image>>)
    /\ UNCHANGED faults_seen
    /\ UNCHANGED <<clock, use_supabase, creating, images_sent, last_gc>>
    /\ UNCHANGED outside_sessions

\* the Done button: multipdf_callback_handler, "multipdf_done_"
DonePressed(u) ==
    /\ \E f1 \in Faults({"select"}), f2 \in Faults({"update"}),
          f3 \in Faults({"select"}) :
         \E session_id \in get_user_session(store, u, f1) :
            /\ session_id # None
            /\ store' = session_temp_folder(
                    update_session_status(store, session_id, "awaiting_selection",
                                          clock, f2),
                    session_id, f3)
            /\ Faulted(<<f1, f2, f3>>)
    /\ UNCHANGED <<clock, use_supabase, downloads, creating, images_sent, last_gc>>
    /\ UNCHANGED outside_sessions

\* the A4 / Auto-Size button, up to callback_query.answer("Creating PDF...")
SizeSelected(u) ==
    /\ \E f1 \in Faults({"select"}), f2 \in Faults({"update"}) :
         \E session_id \in get_user_session(store, u, f1) :
            /\ session_id # None
            /\ store' = update_session_status(store, session_id, "processing", clock, f2)
            /\ creating' = creating \cup
                  {[session_id |-> session_id, pc |-> "answered", in_folder |-> FALSE,
                    collected_images |-> <<>>]}
            /\ Faulted(<<f1, f2>>)
    /\ UNCHANGED <<clock, use_supabase, downloads, images_sent, last_gc>>
    /\ UNCHANGED outside_sessions

\* the A4 / Auto-Size branch from get_session to the progress messages:
\* without images it returns; else the status is written once more and the
\* handler waits for edit_text / reply_text before it opens the images
PdfLoaded(b) ==
    /\ b \in creating
    /\ b.pc = "answered"
    /\ \E f1 \in Faults({"select"}), f2 \in Faults({"update"}) :
         LET loaded == session_temp_folder(store, b.session_id, f1)
         IN /\ Faulted(<<f1, f2>>)
            /\ IF get_session_images(store, b.session_id, f1) = <<>>
               THEN /\ store' = loaded
                    /\ creating' = creating \ {b}
               ELSE /\ store' = update_session_status(loaded, b.session_id,
                                                      "processing", clock, f2)
                    /\ creating' = (creating \ {b}) \cup
                          {[b EXCEPT !.pc = "loaded",
                                     !.in_folder = InTempFolder(store, b.session_id, f1),
                                     !.collected_images =
                                         get_session_images(store, b.session_id, f1)]}
    /\ UNCHANGED <<clock, use_supabase, downloads, images_sent, last_gc>>
    /\ UNCHANGED outside_sessions

\* the rest of the A4 / Auto-Size branch: the images are opened, the PDF is
\* built and sent, the folder of the session removed; or Image.open raises on
\* a copy that is gone and the except clause runs; either way the session is
\* deleted. When normalizer.normalize gives None for every image the handler
\* replies "No valid images to process." and returns from inside the try
PdfCreated(b) ==
    /\ b \in creating
    /\ b.pc = "loaded"
    /\ creating' = creating \ {b}
    /\ \E any_valid \in BOOLEAN :
         IF ~any_valid THEN store' = store /\ faults_seen' = faults_seen
         ELSE \E f3 \in Faults({"select", "delete"}) :
                /\ Faulted(<<f3>>)
                /\ store' = delete_session(
                        rmtree(IF b.in_folder THEN store
                               ELSE remove_files(store, b.collected_images),
                               b.session_id),
                        b.session_id, f3)
    /\ UNCHANGED <<clock, use_supabase, downloads, images_sent, last_gc>>
    /\ UNCHANGED outside_sessions

\* handle_multipdf_cancel (both buttons) and cancel_command_handler: the
\* images are fetched to remove the local files; the buttons remove the
\* folder of the session as well, the /cancel command leaves it
CancelSession(u) ==
    /\ \E f1 \in Faults({"select"}), f2 \in Faults({"select", "delete"}),
          f3 \in Faults({"select"}), button \in BOOLEAN :
         \E session_id \in get_user_session(store, u, f1) :
            LET listed == session_temp_folder(store, session_id, f3)
                fetched == IF InTempFolder(store, session_id, f3) THEN listed
                           ELSE remove_files(listed,
                                    get_session_images(store, session_id, f3))
            IN /\ session_id # None
               /\ store' = delete_session(
                       IF button THEN rmtree(fetched, session_id) ELSE fetched,
                       session_id, f2)
               /\ Faulted(<<f1, f2, f3>>)
    /\ UNCHANGED <<clock, use_supabase, downloads, creating, images_sent, last_gc>>
    /\ UNCHANGED outside_sessions

\* periodic_cleanup: after asyncio.sleep(1800) it removes the files in
\* downloads/ that match temp_*.jpg, temp_*.pdf, *.jpg, *.pdf and the folders
\* under downloads/temp_sessions; it calls no session storage and looks at no
\* task registry
periodic_cleanup ==
    /\ clock - last_gc >= gc_interval
    /\ last_gc' = clock
    /\ store' = [store EXCEPT !.temp = {}, !.files = {}]
    /\ ops' = [i \in OpIds |->
                 IF ops[i].file = "there" THEN [ops[i] EXCEPT !.file = "gone"]
                 ELSE ops[i]]
    /\ UNCHANGED <<clock, use_supabase, downloads, creating, images_sent,
                   faults_seen>>
    /\ UNCHANGED <<rl_vars, active_tasks, compress_active_tasks, last_cancel,
                   backend_vars>>

\* time passes
ClockTick ==
    /\ clock + ClockStepSeconds <= MaxClockSteps * ClockStepSeconds
    /\ clock' = clock + ClockStepSeconds
    /\ UNCHANGED <<use_supabase, store, downloads, creating, images_sent, last_gc,
                   faults_seen>>
    /\ UNCHANGED outside_sessions

SessionsInit(supabase_configured) ==
    /\ clock = 0
    /\ use_supabase = supabase_configured
    /\ store = EmptyStore
    /\ downloads = {}
    /\ creating = {}
    /\ images_sent = 0
    /\ last_gc = 0
    /\ faults_seen = 0

SessionsNext ==
    \/ \E u \in SessionUsers : StartSession(u)
    \/ \E u \in SessionUsers : CollectImage(u)
    \/ \E d \in downloads : CollectDownloaded(d)
    \/ \E d \in downloads : CollectCleaned(d)
    \/ \E u \in SessionUsers : DonePressed(u)
    \/ \E u \in SessionUsers : SizeSelected(u)
    \/ \E b \in creating : PdfLoaded(b)
    \/ \E b \in creating : PdfCreated(b)
    \/ \E u \in SessionUsers : CancelSession(u)
    \/ periodic_cleanup
    \/ ClockTick

-----------------------------------------------------------------------------
(* RedisSessionStorage (redis_session.py) and SessionStorageAdapter         *)
(* (session_adapter.py), driven call by call. A Redis method suspends at    *)
(* every command it awaits, so each command is a step of its own and the    *)
(* calls of two callers interleave; any command may raise. A call that the  *)
(* adapter forwards to SupabaseStorage is one atomic step.                  *)

\* step of the clock between storage calls, and the number of steps explored
StorageStepSeconds == 1800
MaxStorageSteps == 2
\* the number of storage calls one run makes
MaxStorageCalls == 4
\* the number of images kept at a time, and the largest order a caller passes
MaxStoredImages == 3
MaxOrder == 2

\* the expiration create_session, add_image and update_metadata pass to setex
redis_ttl == 3600

Callers == {1, 2}
Metadatas == {{}, {"filename"}}
Orders == 0..MaxOrder

\* the session ids a caller can pass: those create_session can return; a
\* caller passes one that it can have returned by now
SessionIds ==
    {SessionId(u, k * StorageStepSeconds) : u \in SessionUsers, k \in 0..MaxStorageSteps}

Known(session_id) == session_id[2] <= clock

\* the file of the item a caller adds with a given order
ItemAt(order) == order

\* f"session:{session_id}" and f"user_session:{user_id}"
SessionKey(session_id) == <<"session:">> \o session_id
UserSessionKey(user_id) == <<"user_session:", user_id>>

\* redis_client.setex(key, seconds, value)
setex(keys, key, seconds, value, t) ==
    Put(keys, key, [value |-> value, expires_at |-> t + seconds])

\* redis_client.get(key): None for a missing or expired key
get(keys, key, t) ==
    IF key \in DOMAIN keys /\ t < keys[key].expires_at THEN keys[key].value ELSE None

\* redis_client.delete(key)
delete(keys, key) == Remove(keys, {key})

\* the keys Redis still holds at time t
Unexpired(keys, t) ==
    [k \in {x \in DOMAIN keys : t < keys[x].expires_at} |-> keys[k]]

\* sorted(session_data["images"], key=lambda x: x["order"]): a stable sort
RECURSIVE SortedByOrder(_)
SortedByOrder(images) ==
    IF images = <<>> THEN <<>>
    ELSE LET least == CHOOSE i \in 1..Len(images) :
                         /\ \A j \in 1..Len(images) : images[i].order <= images[j].order
                         /\ \A j \in 1..(i - 1) : images[j].order # images[i].order
         IN <<images[least]>> \o
            SortedByOrder(SubSeq(images, 1, least - 1) \o
                          SubSeq(images, least + 1, Len(images)))

\* [img["path"] for img in images]
Paths(images) == [k \in 1..Len(images) |-> images[k].path]

\* RedisSessionStorage.is_enabled
is_enabled == redis_enabled

\* SessionStorageAdapter.__init__
SessionStorageAdapter(redis_is_enabled, supabase_storage) ==
    [_use_redis |-> redis_is_enabled, supabase |-> supabase_storage]

\* SessionStorageAdapter.storage_type
storage_type ==
    IF adapter._use_redis THEN "redis"
    ELSE IF adapter.supabase THEN "supabase"
    ELSE "memory"

\* an adapter that asks is_enabled again at every call
Routed_by_current_state ==
    IF redis_enabled THEN "redis"
    ELSE IF adapter.supabase THEN "supabase"
    ELSE "memory"

\* the branch an adapter method takes
Routed ==
    IF adapter._use_redis THEN "redis"
    ELSE IF adapter.supabase THEN "supabase"
    ELSE "memory"

\* a client command may raise
ClientFails == IF faults_seen < MaxFaults THEN BOOLEAN ELSE {FALSE}

NoCall ==
    [op |-> "none", pc |-> "idle", routed |-> "none",
     args |-> <<>>, forwarded |-> None, data |-> None, result |-> None,
     failed |-> FALSE, changed |-> FALSE, absent |-> FALSE]

\* The callers of the storage: which methods they call, with which orders
\* and metadata, and whether time passes between the calls.
\* One caller adds images in any order and reads them back.
OrderingDriver ==
    [name |-> "ordering", callers |-> {1},
     ops |-> {"create_session", "add_image", "get_session_images"},
     orders |-> Orders, metadatas |-> {{}}, timed |-> FALSE, calls_left |-> MaxStorageCalls]

\* Two collect_image_handler calls of one user run at the same time.
CollectDriver ==
    [name |-> "collectors", callers |-> Callers,
     ops |-> {"create_session", "collect"},
     orders |-> {}, metadatas |-> {{}}, timed |-> FALSE, calls_left |-> MaxStorageCalls]

\* One caller creates, fills, updates, looks up and deletes sessions while
\* time passes.
LifecycleDriver ==
    [name |-> "lifecycle", callers |-> {1},
     ops |-> {"create_session", "get_user_session", "add_image", "get_session_images",
              "delete_session", "update_metadata"},
     orders |-> {0}, metadatas |-> Metadatas, timed |-> TRUE, calls_left |-> MaxStorageCalls]

\* One caller creates a session, adds an image, updates the status and runs
\* the cleanup of old sessions, while time passes.
StatusDriver ==
    [name |-> "status", callers |-> {1},
     ops |-> {"create_session", "add_image", "update_session_status",
              "cleanup_old_sessions"},
     orders |-> {0}, metadatas |-> {{}}, timed |-> TRUE, calls_left |-> MaxStorageCalls]

\* Two callers add images with orders of their own choice to one session, or
\* delete it, at the same time.
RacingDriver ==
    [name |-> "racing", callers |-> Callers,
     ops |-> {"create_session", "add_image", "delete_session"},
     orders |-> Orders, metadatas |-> {{}}, timed |-> FALSE, calls_left |-> MaxStorageCalls]

\* One user starts a session and collects an image through the adapter, then
\* presses Done.
FlowDriver ==
    [name |-> "flow", callers |-> {1},
     ops |-> {"create_session", "collect", "done"},
     orders |-> {}, metadatas |-> {{}}, timed |-> FALSE, calls_left |-> MaxStorageCalls]

Drivers ==
    {OrderingDriver, CollectDriver, LifecycleDriver, StatusDriver, RacingDriver,
     FlowDriver}

\* a caller starts a call when its last one has returned
CanCall(c, op) ==
    /\ calls[c].pc = "idle"
    /\ c \in driver.callers
    /\ op \in driver.ops
    /\ driver.calls_left > 0
    /\ driver' = [driver EXCEPT !.calls_left = @ - 1]

\* a session id is stored somewhere: as a Redis key, a row or a memory entry
Exists(session_id) ==
    \/ get(redis_keys, SessionKey(session_id), clock) # None
    \/ session_id \in StoredSessions(store)

\* the record of a call that has just started; absent notes that the call
\* names a session id that is stored nowhere, changed that a request of the
\* call has changed what is stored
Started(op, args, forwarded, session_id) ==
    [op |-> op, pc |-> "started", routed |-> Routed,
     args |-> args, forwarded |-> forwarded, data |-> None, result |-> None,
     failed |-> FALSE, changed |-> FALSE,
     absent |-> session_id # None /\ ~Exists(session_id)]

\* the call returns
Returned(call, result) == [call EXCEPT !.pc = "done", !.result = result]

\* a request raised and an except clause of the method caught it: the call
\* returns what that clause returns
Caught(call, result) == [call EXCEPT !.pc = "done", !.result = result, !.failed = TRUE]

\* the next position of a call that goes on after a command
Goes(call, pc, data) == [call EXCEPT !.pc = pc, !.data = data]

\* the number of images kept, in whichever place
RECURSIVE SumOf(_, _)
SumOf(f, keys) ==
    IF keys = {} THEN 0
    ELSE LET k == CHOOSE x \in keys : TRUE IN f[k] + SumOf(f, keys \ {k})

StoredImageCount ==
    LET session_keys == {k \in DOMAIN redis_keys : k[1] = "session:"}
    IN SumOf([k \in session_keys |-> Len(redis_keys[k].value.images)], session_keys)
       + Len(store.images)
       + SumOf([i \in 1..Len(store.mem) |-> Len(store.mem[i].images)], 1..Len(store.mem))

\* what no storage call touches
call_unchanged == <<rl_vars, task_vars, use_supabase, downloads, creating, images_sent,
                    last_gc, redis_enabled, adapter, built_with>>

\* caller c is now at `call`; a call that has returned becomes the last call
Settle(c, call) ==
    /\ calls' = [calls EXCEPT ![c] = IF call.pc = "done" THEN NoCall ELSE call]
    /\ last_call' = IF call.pc = "done" THEN call ELSE last_call

\* the outcome of one Redis command of caller c: it raises and the call
\* becomes `caught`, or it runs, the keys become `keys` and the call `next`
Command(c, caught, keys, next) ==
    /\ \E fails \in ClientFails :
          IF fails
          THEN /\ Settle(c, caught)
               /\ redis_keys' = redis_keys
               /\ faults_seen' = faults_seen + 1
          ELSE /\ Settle(c, [next EXCEPT !.changed = @ \/ keys # redis_keys])
               /\ redis_keys' = keys
               /\ faults_seen' = faults_seen
    /\ UNCHANGED <<clock, store>>

\* a call that returns without a request to any backend
Answer(c, call, result) ==
    /\ Settle(c, Returned(call, result))
    /\ UNCHANGED <<clock, store, redis_keys, faults_seen>>

\* a call that SupabaseStorage serves in one step
Served(c, call, result, st, faults) ==
    /\ Settle(c, [(IF \E k \in DOMAIN faults : faults[k] # "none"
                   THEN Caught(call, result) ELSE Returned(call, result))
                     EXCEPT !.changed = st # store])
    /\ store' = st
    /\ Faulted(faults)
    /\ UNCHANGED <<clock, redis_keys>>

\* ---- create_session ----

\* session_adapter.create_session / RedisSessionStorage.create_session up to
\* its first setex
CallCreateSession(c, user_id, metadata) ==
    LET session_id == SessionId(user_id, clock)
        to_redis == Started("create_session", <<user_id, metadata>>,
                            <<user_id, metadata>>, None)
        to_supabase == Started("create_session", <<user_id, metadata>>,
                               <<user_id>>, None)
        session_data == [user_id |-> user_id, created_at |-> clock,
                         images |-> <<>>, metadata |-> metadata]
    IN /\ CanCall(c, "create_session")
       /\ metadata \in driver.metadatas
       /\ UNCHANGED call_unchanged
       /\ IF Routed = "redis"
          THEN IF ~is_enabled THEN Answer(c, to_redis, None)
               ELSE Command(c, Caught(to_redis, None),
                            setex(redis_keys, SessionKey(session_id), redis_ttl,
                                  session_data, clock),
                            Goes(to_redis, "create_mapping", session_id))
          ELSE IF Routed = "supabase"
          THEN \E f \in Faults({"insert"}) :
                  Served(c, to_supabase, session_id,
                         create_session(store, user_id, clock, f), <<f>>)
          ELSE Answer(c, [to_redis EXCEPT !.forwarded = None], None)

\* create_session: the setex of the user mapping
RedisCreateMapping(c) ==
    /\ calls[c].pc = "create_mapping"
    /\ Command(c, Caught(calls[c], None),
               setex(redis_keys, UserSessionKey(calls[c].args[1]), redis_ttl,
                     calls[c].data, clock),
               Returned(calls[c], calls[c].data))
    /\ UNCHANGED <<driver, call_unchanged>>

\* ---- get_user_session ----

CallGetUserSession(c, user_id) ==
    LET call == Started("get_user_session", <<user_id>>, <<user_id>>, None)
    IN /\ CanCall(c, "get_user_session")
       /\ UNCHANGED call_unchanged
       /\ IF Routed = "redis"
          THEN IF ~is_enabled THEN Answer(c, call, None)
               ELSE Command(c, Caught(call, None), redis_keys,
                            Returned(call, get(redis_keys, UserSessionKey(user_id), clock)))
          ELSE IF Routed = "supabase"
          THEN \E f \in Faults({"select"}) :
                  \E found \in get_user_session(store, user_id, f) :
                      Served(c, call, found, store, <<f>>)
          ELSE Answer(c, [call EXCEPT !.forwarded = None], None)

\* ---- add_image ----

\* RedisSessionStorage.add_image up to its setex: get_session_data catches
\* what its get raises and returns None, and add_image then returns False
AddImageGet(c, call, session_id, image_path, order) ==
    LET session_data == get(redis_keys, SessionKey(session_id), clock)
        appended == [session_data EXCEPT !.images = Append(@,
                        [path |-> image_path, order |-> order, added_at |-> clock])]
    IN IF ~is_enabled THEN Answer(c, call, FALSE)
       ELSE Command(c, Caught(call, FALSE), redis_keys,
                    IF session_data = None THEN Returned(call, FALSE)
                    ELSE Goes(call, "add_setex", appended))

CallAddImage(c, session_id, order) ==
    LET image_path == ItemAt(order)
        call == Started("add_image", <<session_id, image_path, order>>,
                        <<session_id, image_path, order>>, session_id)
    IN /\ CanCall(c, "add_image")
       /\ Known(session_id)
       /\ order \in driver.orders
       /\ StoredImageCount < MaxStoredImages
       /\ UNCHANGED call_unchanged
       /\ IF Routed = "redis"
          THEN AddImageGet(c, call, session_id, image_path, order)
          ELSE IF Routed = "supabase"
          THEN \E f \in Faults({"upload", "insert"}) :
                  Served(c, call, TRUE,
                         add_image(store, session_id, image_path, order, f), <<f>>)
          ELSE Answer(c, [call EXCEPT !.forwarded = None], FALSE)

\* add_image: the setex of the session with the image appended
RedisAddImageSetex(c) ==
    /\ calls[c].pc = "add_setex"
    /\ Command(c, Caught(calls[c], FALSE),
               setex(redis_keys, SessionKey(calls[c].args[1]), redis_ttl,
                     calls[c].data, clock),
               Returned(calls[c], TRUE))
    /\ UNCHANGED <<driver, call_unchanged>>

\* ---- get_session_images ----

\* RedisSessionStorage.get_session_images: [] when get_session_data has none
RedisSessionImages(session_id) ==
    LET session_data == get(redis_keys, SessionKey(session_id), clock)
    IN IF session_data = None THEN <<>>
       ELSE Paths(SortedByOrder(session_data.images))

CallGetSessionImages(c, session_id) ==
    LET call == Started("get_session_images", <<session_id>>, <<session_id>>,
                        session_id)
    IN /\ CanCall(c, "get_session_images")
       /\ Known(session_id)
       /\ UNCHANGED call_unchanged
       /\ IF Routed = "redis"
          THEN IF ~is_enabled THEN Answer(c, call, <<>>)
               ELSE Command(c, Caught(call, <<>>), redis_keys,
                            Returned(call, RedisSessionImages(session_id)))
          ELSE IF Routed = "supabase"
          THEN \E f \in Faults({"select"}) :
                  Served(c, call, get_session_images(store, session_id, f),
                         session_temp_folder(store, session_id, f), <<f>>)
          ELSE Answer(c, [call EXCEPT !.forwarded = None], <<>>)

\* ---- delete_session ----

\* RedisSessionStorage.delete_session up to its first delete: a failure of
\* the get is caught inside get_session_data and the call goes on
CallDeleteSession(c, session_id) ==
    LET call == Started("delete_session", <<session_id>>, <<session_id>>,
                        session_id)
    IN /\ CanCall(c, "delete_session")
       /\ Known(session_id)
       /\ UNCHANGED call_unchanged
       /\ IF Routed = "redis"
          THEN IF ~is_enabled THEN Answer(c, call, FALSE)
               ELSE Command(c, [Goes(call, "delete_key", None) EXCEPT !.failed = TRUE],
                            redis_keys,
                            Goes(call, "delete_key",
                                 get(redis_keys, SessionKey(session_id), clock)))
          ELSE IF Routed = "supabase"
          THEN \E f \in Faults({"select", "delete"}) :
                  Served(c, call, None, delete_session(store, session_id, f), <<f>>)
          ELSE Answer(c, [call EXCEPT !.forwarded = None], FALSE)

\* delete_session: the delete of the session key
RedisDeleteKey(c) ==
    /\ calls[c].pc = "delete_key"
    /\ Command(c, Caught(calls[c], FALSE),
               delete(redis_keys, SessionKey(calls[c].args[1])),
               IF calls[c].data = None THEN Returned(calls[c], TRUE)
               ELSE Goes(calls[c], "delete_mapping", calls[c].data))
    /\ UNCHANGED <<driver, call_unchanged>>

\* delete_session: the delete of the user mapping
RedisDeleteMapping(c) ==
    /\ calls[c].pc = "delete_mapping"
    /\ Command(c, Caught(calls[c], FALSE),
               delete(redis_keys, UserSessionKey(calls[c].data.user_id)),
               Returned(calls[c], TRUE))
    /\ UNCHANGED <<driver, call_unchanged>>

\* ---- update_metadata ----

CallUpdateMetadata(c, session_id, metadata) ==
    LET call == Started("update_metadata", <<session_id, metadata>>,
                        <<session_id, metadata>>, session_id)
        session_data == get(redis_keys, SessionKey(session_id), clock)
        merged == [session_data EXCEPT !.metadata = @ \cup metadata]
    IN /\ CanCall(c, "update_metadata")
       /\ Known(session_id)
       /\ metadata \in driver.metadatas
       /\ UNCHANGED call_unchanged
       /\ IF Routed = "redis"
          THEN IF ~is_enabled THEN Answer(c, call, FALSE)
               ELSE Command(c, Caught(call, FALSE), redis_keys,
                            IF session_data = None THEN Returned(call, FALSE)
                            ELSE Goes(call, "metadata_setex", merged))
          ELSE Answer(c, [call EXCEPT !.forwarded = None], FALSE)

\* update_metadata: the setex of the session with the merged metadata
RedisMetadataSetex(c) ==
    /\ calls[c].pc = "metadata_setex"
    /\ Command(c, Caught(calls[c], FALSE),
               setex(redis_keys, SessionKey(calls[c].args[1]), redis_ttl,
                     calls[c].data, clock),
               Returned(calls[c], TRUE))
    /\ UNCHANGED <<driver, call_unchanged>>

\* ---- update_session_status ----

\* the statuses update_session_status is given: the two the handlers pass
\* and the terminal one
UpdatedStatuses == {"awaiting_selection", "processing", "completed"}

\* multipdf_callback_handler: await SupabaseStorage.update_session_status(
\* session_id, status). The adapter and RedisSessionStorage have no such
\* method: the handlers call the SupabaseStorage class itself, whatever the
\* adapter has selected, and the class serves the call in one step.
CallUpdateSessionStatus(c, session_id, status) ==
    LET call == [Started("update_session_status", <<session_id, status>>,
                         <<session_id, status>>, session_id)
                    EXCEPT !.routed = "supabase"]
    IN /\ CanCall(c, "update_session_status")
       /\ Known(session_id)
       /\ UNCHANGED call_unchanged
       /\ \E f \in Faults({"update"}) :
             Served(c, call, None,
                    update_session_status(store, session_id, status, clock, f), <<f>>)

\* ---- the Done button ----

\* multipdf_callback_handler, "multipdf_done_": SupabaseStorage.get_user_session,
\* update_session_status(session_id, 'awaiting_selection'), get_session and
\* get_session_images, all called on the class whatever the adapter has
\* selected; the call returns the session and the images the handler has found
CallDonePressed(c, user_id) ==
    LET call == [Started("done", <<user_id>>, <<user_id>>, None)
                    EXCEPT !.routed = "supabase"]
    IN /\ CanCall(c, "done")
       /\ UNCHANGED call_unchanged
       /\ \E f1 \in Faults({"select"}), f2 \in Faults({"update"}),
             f3 \in Faults({"select"}) :
             \E session_id \in get_user_session(store, user_id, f1) :
                IF session_id = None
                THEN Served(c, call, <<None, <<>>>>, store, <<f1>>)
                ELSE LET updated == update_session_status(store, session_id,
                                        "awaiting_selection", clock, f2)
                     IN Served(c, call,
                               <<session_id, get_session_images(updated, session_id, f3)>>,
                               session_temp_folder(updated, session_id, f3),
                               <<f1, f2, f3>>)

\* ---- cleanup_old_sessions ----

\* await SupabaseStorage.cleanup_old_sessions(): a method of the class, with
\* max_age_seconds at its default; no request of it is awaited on a socket,
\* so it is one step
CallCleanupOldSessions(c) ==
    LET call == [Started("cleanup_old_sessions", <<>>, <<>>, None)
                    EXCEPT !.routed = "supabase"]
    IN /\ CanCall(c, "cleanup_old_sessions")
       /\ UNCHANGED call_unchanged
       /\ \E f \in Faults({"delete_completed", "select"}) :
             Served(c, call, None,
                    cleanup_old_sessions(store, clock, session_ttl, f), <<f>>)

\* ---- collect_image_handler, lines 130-136 ----

\* current_images = await storage.get_session_images(session_id);
\* order = len(current_images); with Redis the call then waits for add_image
CollectCount(c, session_id) ==
    LET call == Started("collect", <<session_id>>, <<session_id>>, session_id)
        order == Len(RedisSessionImages(session_id))
    IN /\ CanCall(c, "collect")
       /\ Known(session_id)
       /\ StoredImageCount < MaxStoredImages
       /\ UNCHANGED call_unchanged
       /\ IF Routed = "redis"
          THEN Command(c, Goes([call EXCEPT !.failed = TRUE], "collect_add", <<0>>),
                       redis_keys, Goes(call, "collect_add", <<order>>))
          ELSE IF Routed = "supabase"
          THEN \E f1 \in Faults({"select"}), f2 \in Faults({"upload", "insert"}) :
                  LET counted == Len(get_session_images(store, session_id, f1))
                  IN Served(c, [call EXCEPT !.data = <<counted>>], TRUE,
                            add_image(session_temp_folder(store, session_id, f1),
                                      session_id, ItemAt(counted), counted, f2),
                            <<f1, f2>>)
          ELSE Answer(c, [call EXCEPT !.forwarded = None], FALSE)

\* await storage.add_image(session_id, downloaded_result, order), with Redis
CollectAdd(c) ==
    /\ calls[c].pc = "collect_add"
    /\ LET order == calls[c].data[1]
       IN AddImageGet(c, [calls[c] EXCEPT !.args = <<calls[c].args[1], ItemAt(order), order>>],
                      calls[c].args[1], ItemAt(order), order)
    /\ UNCHANGED <<driver, call_unchanged>>

\* ---- the environment ----

\* redis_storage.connect() succeeds (main.py calls it after the adapter is built)
connect ==
    /\ driver.timed
    /\ ~redis_enabled
    /\ redis_enabled' = TRUE
    /\ UNCHANGED <<rl_vars, task_vars, session_vars, redis_keys, adapter, built_with,
                   driver, calls, last_call>>

\* time passes between storage calls (a call takes far less than a step of
\* this clock); Redis drops the keys that expire
StorageTick ==
    /\ driver.timed
    /\ \A c \in Callers : calls[c].pc = "idle"
    /\ clock + StorageStepSeconds <= MaxStorageSteps * StorageStepSeconds
    /\ clock' = clock + StorageStepSeconds
    /\ redis_keys' = Unexpired(redis_keys, clock')
    /\ UNCHANGED <<rl_vars, task_vars, use_supabase, store, downloads, creating,
                   images_sent, last_gc, faults_seen, redis_enabled, adapter, built_with,
                   driver, calls, last_call>>

\* the state after RedisSessionStorage(REDIS_URL) and
\* SessionStorageAdapter(redis_storage, supabase_storage)
BackendsInit(enabled_at_construction, supabase_supplied, d) ==
    /\ redis_enabled = enabled_at_construction
    /\ redis_keys = EmptyMap
    /\ adapter = SessionStorageAdapter(enabled_at_construction, supabase_supplied)
    /\ built_with = [redis_enabled |-> enabled_at_construction,
                     supabase |-> supabase_supplied]
    /\ driver = d
    /\ calls = [c \in Callers |-> NoCall]
    /\ last_call = NoCall

BackendsNext ==
    \/ \E c \in Callers, u \in SessionUsers, m \in Metadatas :
          CallCreateSession(c, u, m)
    \/ \E c \in Callers : RedisCreateMapping(c)
    \/ \E c \in Callers, u \in SessionUsers : CallGetUserSession(c, u)
    \/ \E c \in Callers, sid \in SessionIds, o \in Orders :
          CallAddImage(c, sid, o)
    \/ \E c \in Callers : RedisAddImageSetex(c)
    \/ \E c \in Callers, sid \in SessionIds :
          CallGetSessionImages(c, sid)
    \/ \E c \in Callers, sid \in SessionIds : CallDeleteSession(c, sid)
    \/ \E c \in Callers : RedisDeleteKey(c)
    \/ \E c \in Callers : RedisDeleteMapping(c)
    \/ \E c \in Callers, sid \in SessionIds, m \in Metadatas :
          CallUpdateMetadata(c, sid, m)
    \/ \E c \in Callers, sid \in SessionIds, st \in UpdatedStatuses :
          CallUpdateSessionStatus(c, sid, st)
    \/ \E c \in Callers : CallCleanupOldSessions(c)
    \/ \E c \in Callers, u \in SessionUsers : CallDonePressed(c, u)
    \/ \E c \in Callers : RedisMetadataSetex(c)
    \/ \E c \in Callers, sid \in SessionIds : CollectCount(c, sid)
    \/ \E c \in Callers : CollectAdd(c)
    \/ connect
    \/ StorageTick

-----------------------------------------------------------------------------
(* Specifications. The limiter, the task registries, the /multipdf handlers *)
(* and the storage objects called directly are each explored by a           *)
(* specification of its own.                                                 *)

RateLimiterNext ==
    \/ \E u \in Users : check_rate_limit(u)
    \/ Tick
    \/ IdleJump

\* every method of a RateLimiter object, get_user_stats included
RateLimiterMethods ==
    \/ RateLimiterNext
    \/ \E u \in Users : get_user_stats(u)

\* the commands as the handlers of register.py serve them: /pdf and image
\* documents pass pdf_rate_limiter, the compression buttons pass no limiter
AdmissionNext ==
    \/ \E i \in OpIds, m \in PhotoMessages, u \in Users :
          pdf_command_handler(i, "photo", m, u)
    \/ \E i \in OpIds, m \in DocMessages, u \in Users :
          pdf_command_handler(i, "doc", m, u)
    \/ \E i \in OpIds, u \in UserTokens, st \in Stamps, m \in PdfMessages :
          StartCompress(i, u, st, m)
    \/ \E i \in OpIds : ConvertBeforeDownload(i)
    \/ \E i \in OpIds : ConvertAfterDownload(i)
    \/ \E i \in OpIds : ConvertTransform(i)
    \/ \E i \in OpIds : ConvertBuildPdf(i)
    \/ \E i \in OpIds : ConvertPreUpload(i)
    \/ \E i \in OpIds : ConvertUploaded(i)
    \/ \E i \in OpIds : CompressAfterDownload(i)
    \/ \E i \in OpIds : CompressRun(i)
    \/ \E i \in OpIds : CompressUploaded(i)

TasksNext ==
    \/ \E i \in OpIds, m \in PhotoMessages : StartConvert(i, "photo", m)
    \/ \E i \in OpIds, m \in DocMessages : StartConvert(i, "doc", m)
    \/ \E i \in OpIds : ConvertBeforeDownload(i)
    \/ \E i \in OpIds : ConvertAfterDownload(i)
    \/ \E i \in OpIds : ConvertTransform(i)
    \/ \E i \in OpIds : ConvertBuildPdf(i)
    \/ \E i \in OpIds : ConvertPreUpload(i)
    \/ \E i \in OpIds : ConvertUploaded(i)
    \/ \E i \in OpIds, u \in UserTokens, st \in Stamps, m \in PdfMessages :
          StartCompress(i, u, st, m)
    \/ \E i \in OpIds : CompressAfterDownload(i)
    \/ \E i \in OpIds : CompressRun(i)
    \/ \E i \in OpIds : CompressUploaded(i)
    \/ \E t \in TaskIds : CancelConvert(t)
    \/ \E t \in TaskIds : CancelCompress(t)

\* main.py: the adapter is built from a RedisSessionStorage that has not
\* connected yet, and from SupabaseStorage
MainInit == BackendsInit(FALSE, TRUE, LifecycleDriver)

Init ==
    /\ \E r \in SmallRuns \cup {PdfRun} : RateLimiterInit(r)
    /\ TasksInit
    /\ \E c \in BOOLEAN : SessionsInit(c)
    /\ \E enabled \in BOOLEAN, supplied \in BOOLEAN, d \in Drivers :
          BackendsInit(enabled, supplied, d)

Next == RateLimiterMethods \/ TasksNext \/ AdmissionNext \/ SessionsNext \/ BackendsNext

Spec == Init /\ [][Next]_vars

InitRateLimiter ==
    /\ \E r \in SmallRuns \cup {PdfRun} : RateLimiterInit(r)
    /\ TasksInit
    /\ SessionsInit(FALSE)
    /\ MainInit

SpecRateLimiter == InitRateLimiter /\ [][RateLimiterNext]_vars

SpecRateLimiterMethods == InitRateLimiter /\ [][RateLimiterMethods]_vars

InitTasks == RateLimiterInit(PdfRun) /\ TasksInit /\ SessionsInit(FALSE) /\ MainInit

InitSessions ==
    /\ RateLimiterInit(PdfRun)
    /\ TasksInit
    /\ \E c \in BOOLEAN : SessionsInit(c)
    /\ MainInit

\* the configurations of the storage: Redis connected or not when the adapter
\* is built, SupabaseStorage passed to it or not, Supabase configured or not
\* (the last matters only to an adapter that forwards to SupabaseStorage)
Configurations ==
    {[redis |-> TRUE, supabase |-> TRUE, configured |-> TRUE],
     [redis |-> TRUE, supabase |-> FALSE, configured |-> FALSE],
     [redis |-> FALSE, supabase |-> TRUE, configured |-> TRUE],
     [redis |-> FALSE, supabase |-> TRUE, configured |-> FALSE],
     [redis |-> FALSE, supabase |-> FALSE, configured |-> FALSE]}

\* the storage objects in every configuration, called by every driver
InitBackends ==
    /\ RateLimiterInit(PdfRun)
    /\ TasksInit
    /\ \E cfg \in Configurations, d \in Drivers :
          /\ SessionsInit(cfg.configured)
          /\ BackendsInit(cfg.redis, cfg.supabase, d)

SpecBackends == InitBackends /\ [][BackendsNext]_vars

SpecSessions == InitSessions /\ [][SessionsNext]_vars

SpecTasks == InitTasks /\ [][TasksNext]_vars

SpecAdmission == InitTasks /\ [][AdmissionNext]_vars

\* the conversions and compressions with the cleanup task of main.py beside
\* them
CleanupNext == TasksNext \/ periodic_cleanup \/ ClockTick

SpecCleanup == InitTasks /\ [][CleanupNext]_vars

-----------------------------------------------------------------------------
(* Claims about the rate limiter, over the history rl_log *)

WindowTicks == Secs(window_seconds)

\* C1: for a user starting with no history, the first max_requests calls
\* made within window_seconds of the first are all admitted with (True, 0),
\* and the (max_requests + 1)-th call made inside that same window is
\* rejected with a wait strictly greater than 0.
C1_FirstWindow ==
    \A u \in Users :
        LET L == rl_log[u]
            InFirstWindow(i) == L[i].at <= L[1].at + WindowTicks
        IN /\ \A i \in 1..Len(L) :
                (i <= max_requests /\ InFirstWindow(i))
                    => (L[i].allowed /\ L[i].wait = 0)
           /\ (Len(L) > max_requests /\ InFirstWindow(max_requests + 1))
                    => (~L[max_requests + 1].allowed /\ L[max_requests + 1].wait > 0)

C1_Witness ==
    \E u \in Users :
        /\ max_requests >= 2
        /\ Len(rl_log[u]) > max_requests
        /\ rl_log[u][max_requests + 1].at <= rl_log[u][1].at + WindowTicks
        /\ rl_log[u][max_requests + 1].at > rl_log[u][1].at
        /\ ~rl_log[u][max_requests + 1].allowed

\* C2: for every user and every (closed) time interval of length
\* window_seconds, the number of that user's admitted calls inside the
\* interval never exceeds max_requests. An interval that holds admitted calls
\* holds no fewer of them when it is moved to start at the first one, so the
\* intervals checked are those that start at an admitted call.
AdmittedIn(u, a) ==
    Cardinality({i \in 1..Len(rl_log[u]) :
        /\ rl_log[u][i].allowed
        /\ a <= rl_log[u][i].at
        /\ rl_log[u][i].at <= a + WindowTicks})

C2_RollingWindow ==
    \A u \in Users :
        \A i \in 1..Len(rl_log[u]) :
            rl_log[u][i].allowed => AdmittedIn(u, rl_log[u][i].at) <= max_requests

\* the window has slid: a third call is admitted once the first has left the
\* window while the second is still inside it, and another user has called
C2_Witness ==
    \E u \in Users :
        /\ max_requests = 2
        /\ Len(rl_log[u]) >= 3
        /\ \A i \in 1..3 : rl_log[u][i].allowed
        /\ rl_log[u][3].at - rl_log[u][1].at > WindowTicks
        /\ rl_log[u][3].at - rl_log[u][2].at <= WindowTicks
        /\ \E v \in Users : v # u /\ Len(rl_log[v]) > 0

\* C3: if a call of a user is rejected at time t with wait w and the user's
\* next call is made at time t + w, that call is admitted.
C3_AdmittedAfterWait ==
    \A u \in Users :
        \A i \in 1..(Len(rl_log[u]) - 1) :
            (/\ ~rl_log[u][i].allowed
             /\ rl_log[u][i + 1].at = rl_log[u][i].at + Secs(rl_log[u][i].wait))
                => rl_log[u][i + 1].allowed

C3_Witness ==
    \E u \in Users :
        \E i \in 1..(Len(rl_log[u]) - 1) :
            /\ max_requests >= 2
            /\ ~rl_log[u][i].allowed
            /\ rl_log[u][i].wait >= 2
            /\ rl_log[u][i + 1].at = rl_log[u][i].at + Secs(rl_log[u][i].wait)
            /\ rl_log[u][i + 1].allowed

\* the users whose latest call was rejected: their window still is what that
\* call left, its head the oldest remaining timestamp
JustRejected(u) ==
    /\ rl_log[u] # <<>>
    /\ ~rl_log[u][Len(rl_log[u])].allowed
    /\ u \in DOMAIN user_requests
    /\ user_requests[u] # <<>>

LastCall(u) == rl_log[u][Len(rl_log[u])]

\* oldestRemainingTimestamp + windowSeconds - now of the latest call, in ticks
Remaining(u) == Head(user_requests[u]) + WindowTicks - LastCall(u).at

\* scenario A: pdf_rate_limiter, ten admitted requests over seconds 0..5,
\* an eleventh request at second 5
ScenarioA(u) ==
    /\ max_requests = 10
    /\ window_seconds = 60
    /\ Len(rl_log[u]) = 11
    /\ rl_log[u][1].at = 0
    /\ \A i \in 1..10 : rl_log[u][i].allowed /\ rl_log[u][i].at <= Secs(5)
    /\ rl_log[u][11].at = Secs(5)

\* C4 as stated: every rejected call returns ceil(oldestRemainingTimestamp +
\* windowSeconds - now), and the eleventh request of scenario A is rejected
\* with wait 55.
C4_Original ==
    \A u \in Users :
        /\ JustRejected(u) => LastCall(u).wait = CeilSeconds(Remaining(u))
        /\ ScenarioA(u) => (~LastCall(u).allowed /\ LastCall(u).wait = 55)

\* C4 amended: every rejected call returns floor(oldestRemainingTimestamp +
\* windowSeconds - now) + 1: the ceiling when the remaining time is not a
\* whole number of seconds, one more than the ceiling when it is; the
\* eleventh request of scenario A is rejected with wait 56.
C4_WaitIsFloorPlusOne ==
    \A u \in Users :
        /\ JustRejected(u) =>
              /\ Remaining(u) >= 0
              /\ LastCall(u).wait =
                    IF Remaining(u) % TicksPerSecond = 0
                    THEN CeilSeconds(Remaining(u)) + 1
                    ELSE CeilSeconds(Remaining(u))
        /\ ScenarioA(u) => (~LastCall(u).allowed /\ LastCall(u).wait = 56)

C4_Witness ==
    \E u \in Users : ScenarioA(u) /\ JustRejected(u) /\ rl_log[u][10].at = Secs(5)

-----------------------------------------------------------------------------
(* Claims about the task registries (SpecTasks)                             *)

RegistryOf(name) == IF name = "convert" THEN active_tasks ELSE compress_active_tasks

RegistryOfNext(name) == IF name = "convert" THEN active_tasks' ELSE compress_active_tasks'

\* operation i is started by this step
Starts(i) == ops[i].pc = "idle" /\ ops'[i].pc # "idle"

\* C5: registering a task id that is already in the registry fails and leaves
\* the existing entry (flag, progress) untouched, in the convert registry and
\* in the compress registry.
C5_DuplicateRegistrationFails ==
    [][\A i \in OpIds :
          LET name == RegistryName(ops'[i])
              task_id == ops'[i].task_id
          IN (Starts(i) /\ task_id \in DOMAIN RegistryOf(name))
                => /\ RegistryOfNext(name) = RegistryOf(name)
                   /\ ~Running(ops'[i])]_vars

\* C6: once the cancellation flag stored under a task id is true, it is true
\* for as long as an entry for that id stays in the registry.
C6_CancellationMonotonic ==
    [][\A name \in {"convert", "compress"} :
          \A t \in DOMAIN RegistryOf(name) \cap DOMAIN RegistryOfNext(name) :
              RegistryOf(name)[t].cancelled => RegistryOfNext(name)[t].cancelled]_vars

\* C7: a cancel request on a registered id makes the cancellation check on
\* that id true; a cancellation check on an id that has been released is
\* false and never raises.
C7_CheckAfterCancelAndRelease ==
    [][/\ \A t \in TaskIds :
            /\ (t \in DOMAIN active_tasks /\ CancelConvert(t))
                  => IsCancelled(active_tasks', t)
            /\ (t \in DOMAIN compress_active_tasks /\ CancelCompress(t))
                  => IsCancelled(compress_active_tasks', t)
       /\ \A i \in OpIds : ops'[i].error # "KeyError"]_vars

\* the registries and the operations are as they were
NothingTouched ==
    /\ active_tasks' = active_tasks
    /\ compress_active_tasks' = compress_active_tasks
    /\ ops' = ops

\* C8: a cancel request for an id that is not in the registry raises nothing,
\* creates no entry, changes no task's flag and sends no notice.
C8_UnknownCancelIsNoOp ==
    [][\A t \in TaskIds :
          /\ (t \notin DOMAIN active_tasks /\ CancelConvert(t))
                => (NothingTouched /\ ~last_cancel'.answered)
          /\ (t \notin DOMAIN compress_active_tasks /\ CancelCompress(t))
                => (NothingTouched /\ ~last_cancel'.answered)]_vars

\* a cancel request has met an id whose operation had returned and released it
C8_Witness ==
    /\ last_cancel.handled
    /\ last_cancel.finished
    /\ ~last_cancel.answered

\* C9: on every exit path of a convert or compress operation the entry of its
\* task has been removed by the time the operation returns.
C9_ReleasedOnEveryExit ==
    \A i \in OpIds :
        ops[i].pc = "done" =>
            \/ ops[i].task_id \notin DOMAIN RegistryOf(RegistryName(ops[i]))
            \/ \E j \in OpIds \ {i} :
                  /\ Running(ops[j])
                  /\ RegistryName(ops[j]) = RegistryName(ops[i])
                  /\ ops[j].task_id = ops[i].task_id

\* C10: an operation whose flag is set before it reaches a later checkpoint
\* terminates as cancelled and uploads no document.
C10_CancelledNeverUploads ==
    \A i \in OpIds :
        ops[i].cancel = "checked" =>
            /\ ops[i].uploaded = "none"
            /\ ops[i].pc = "done" => ops[i].outcome = "cancelled"

\* the kinds of terminal notification the user of an operation has received:
\* the "cancelled" notice of the cancel callback or of a cancellation check,
\* a delivered document, a failure message
Notices(op) ==
    (IF op.cancel # "no" \/ op.outcome = "cancelled" THEN {"cancelled"} ELSE {})
        \cup (IF op.uploaded # "none" THEN {"document"} ELSE {})
        \cup (IF op.outcome = "failed" THEN {"failure"} ELSE {})

\* C11: for every convert or compress operation the user receives exactly one
\* terminal notification (document, failure message or "cancelled"), never
\* none and never two.
C11_ExactlyOneNotification ==
    \A i \in OpIds :
        /\ Cardinality(Notices(ops[i])) <= 1
        /\ ops[i].pc = "done" => Cardinality(Notices(ops[i])) = 1

-----------------------------------------------------------------------------
(* Claims about the multipdf sessions (SpecSessions)                        *)

\* the sessions of a user, in the table or in _memory_store, whose status is
\* not 'completed'
OpenSessions(u) ==
    {sid \in DOMAIN store.sessions :
        store.sessions[sid].user_id = u /\ store.sessions[sid].status # "completed"}
    \cup {MemSessionId(store.mem[i].key) : i \in
            {j \in 1..Len(store.mem) :
                store.mem[j].user_id = u /\ store.mem[j].status # "completed"}}

\* C12: in every reachable state each user has at most one session whose
\* status is not 'completed'.
C12_OneOpenSessionPerUser ==
    \A u \in SessionUsers : Cardinality(OpenSessions(u)) <= 1

\* the time a stored session was last refreshed
LastRefresh(sid) ==
    IF sid \in DOMAIN store.sessions THEN store.sessions[sid].updated_at
    ELSE store.mem[MemIndex(store.mem, MemKey(sid))].created_at

\* the status of a stored session
StatusOf(sid) ==
    IF sid \in DOMAIN store.sessions THEN store.sessions[sid].status
    ELSE store.mem[MemIndex(store.mem, MemKey(sid))].status

\* C16: a periodic GC cycle deletes every non-terminal session last refreshed
\* more than the session TTL (1800 s) ago, and keeps every session refreshed
\* within the TTL.
C16_GcDeletesExpiredSessions ==
    [][last_gc' # last_gc =>
          \A sid \in StoredSessions(store) :
              IF clock - LastRefresh(sid) > session_ttl
              THEN StatusOf(sid) # "completed" => sid \notin StoredSessions(store')
              ELSE sid \in StoredSessions(store')]_vars

-----------------------------------------------------------------------------
(* Claims about the storage backends and the adapter (SpecBackends) *)

\* the order indices are those of n items: pairwise distinct and exactly 0..n-1
Dense(orders) ==
    /\ \A i, j \in 1..Len(orders) : i # j => orders[i] # orders[j]
    /\ {orders[i] : i \in 1..Len(orders)} = 0..(Len(orders) - 1)

\* the order indices stored with the items of the sessions, per session
StoredOrders ==
    {[i \in 1..Len(redis_keys[k].value.images) |-> redis_keys[k].value.images[i].order] :
        k \in {x \in DOMAIN redis_keys : x[1] = "session:"}}
    \cup {[i \in 1..Len(ImageRows(store, sid)) |-> ImageRows(store, sid)[i].image_order] :
            sid \in DOMAIN store.sessions}

\* C13: where every item is added by collect_image_handler (order = current
\* item count, then add), the order indices stored in a session are pairwise
\* distinct and are exactly 0..n-1, also with two handlers of one user running
\* at the same time.
C13_OrdersDenseAndUnique ==
    driver.name = "collectors" => \A orders \in StoredOrders : Dense(orders)

\* the items come back in ascending order of their order index (an item is
\* named by the order it was added with, ItemAt)
Ascending(items) == \A i, j \in 1..Len(items) : i < j => items[i] <= items[j]

\* C14: on every backend get_session_images returns the items of a session
\* sorted by ascending order index, whatever the order of the add_image
\* calls: strictly ascending for items added with distinct orders.
C14_ImagesSortedByOrder ==
    last_call.op = "get_session_images" => Ascending(last_call.result)

\* the calls that take a step: the one a caller starts, and the ones in flight
\* that go on
MovingCalls ==
    {calls[c] : c \in {x \in Callers : calls[x].pc # "idle" /\ calls'[x].pc # calls[x].pc}}
    \cup (IF driver'.calls_left = driver.calls_left THEN {}
          ELSE IF \E c \in Callers : calls[c].pc = "idle" /\ calls'[c].pc # "idle"
          THEN {calls'[c] : c \in {x \in Callers : calls[x].pc = "idle" /\ calls'[x].pc # "idle"}}
          ELSE {last_call'})

\* C15: delete_session on a session id that is not stored (never created, or
\* deleted before, and not created by another caller meanwhile) returns
\* without raising, whether or not a request fails, and leaves every session,
\* item and user mapping as it was.
C15_DeleteOfAbsentSessionChangesNothing ==
    [][\A call \in MovingCalls :
          (call.op = "delete_session" /\ call.absent /\ ~Exists(call.args[1])) =>
              /\ store' = store
              /\ redis_keys' = redis_keys
              /\ \A c \in Callers :
                    calls'[c] # calls[c] => calls'[c].pc \in {"idle", "delete_key"}]_vars

\* a delete_session of a session id that is not stored has returned while
\* other sessions are stored
C15_Witness ==
    /\ last_call.op = "delete_session"
    /\ last_call.absent
    /\ last_call.routed \in {"redis", "supabase"}
    /\ StoredSessions(store) # {} \/ DOMAIN redis_keys # {}

\* the methods of the adapter
AdapterOps ==
    {"create_session", "get_user_session", "add_image", "get_session_images",
     "delete_session", "update_metadata"}

\* the backend the construction of the adapter calls for
ChosenBackend ==
    IF built_with.redis_enabled THEN "redis"
    ELSE IF built_with.supabase THEN "supabase"
    ELSE "memory"

\* C17: the adapter picks one backend when it is built (Redis if it reports
\* enabled then, else SupabaseStorage if supplied, else memory); storage_type
\* names that backend ever after, every call of an adapter method is routed
\* to it and to no other,
\* and with Redis unavailable at construction and SupabaseStorage supplied a
\* create_session lands in SupabaseStorage.
C17_OneBackendChosenAtConstruction ==
    /\ storage_type = ChosenBackend
    /\ \A c \in Callers : calls[c].op \in AdapterOps => calls[c].routed = ChosenBackend
    /\ last_call.op \in AdapterOps => last_call.routed = ChosenBackend
    /\ ChosenBackend # "redis" => redis_keys = EmptyMap
    /\ ChosenBackend # "supabase" => store = EmptyStore
    /\ (ChosenBackend = "supabase" /\ last_call.op = "create_session") =>
          last_call.result \in StoredSessions(store)

\* Redis was not connected when the adapter was built and connected later;
\* a create_session has gone to SupabaseStorage
C17_Witness ==
    /\ ~built_with.redis_enabled
    /\ built_with.supabase
    /\ redis_enabled
    /\ last_call.op = "create_session"
    /\ last_call.result \in StoredSessions(store)

\* what the backend was called with, a metadata argument left out read as
\* its default
Forwarded(call) ==
    IF call.op = "create_session" /\ Len(call.forwarded) = 1
    THEN Append(call.forwarded, {})
    ELSE call.forwarded

\* C18: every adapter method passes all of its arguments unchanged to the
\* backend the adapter has selected.
C18_AdapterForwardsArguments ==
    (last_call.op \in AdapterOps /\ last_call.routed # "memory") =>
        Forwarded(last_call) = last_call.args

\* the Redis keys that have not expired
LiveKeys == {k \in DOMAIN redis_keys : clock < redis_keys[k].expires_at}

\* C19: in Redis, between calls, the user mapping of a session's owner lives
\* exactly as long as the session record: a stored record has its owner's
\* mapping, and a stored mapping names a stored record that expires at the
\* same instant.
C19_MappingExpiresWithSession ==
    ((\A c \in Callers : calls[c].pc = "idle") /\ faults_seen = 0) =>
        /\ \A k \in LiveKeys : k[1] = "session:" =>
              UserSessionKey(redis_keys[k].value.user_id) \in LiveKeys
        /\ \A k \in LiveKeys : k[1] = "user_session:" =>
              /\ SessionKey(redis_keys[k].value) \in LiveKeys
              /\ redis_keys[SessionKey(redis_keys[k].value)].expires_at
                    = redis_keys[k].expires_at

\* what a Redis method returns when Redis is unavailable
Sentinel(op) ==
    CASE op \in {"create_session", "get_user_session"} -> None
      [] op \in {"add_image", "delete_session", "update_metadata"} -> FALSE
      [] op = "get_session_images" -> <<>>

\* C20: a Redis method one of whose client commands has failed returns its
\* 'unavailable' value and has changed nothing that is stored.
C20_FailedCallChangesNothing ==
    (last_call.op \in AdapterOps /\ last_call.routed = "redis" /\ last_call.failed) =>
        /\ last_call.result = Sentinel(last_call.op)
        /\ ~last_call.changed

\* C21: session identifiers are unique: a create_session call that returns an
\* identifier never returns one under which a session is already stored, also
\* for the same user within the same clock second, so it overwrites no
\* existing record.
C21_SessionIdsUnique ==
    [][\A call \in MovingCalls :
          (/\ driver'.calls_left # driver.calls_left
           /\ call.op = "create_session"
           /\ call.routed # "memory"
           /\ faults_seen' = 0) =>
              ~Exists(SessionId(call.args[1], clock))]_vars

-----------------------------------------------------------------------------
(* More claims about the multipdf sessions (SpecSessions) *)

\* the position of a status in the order the session goes through
StatusRank(status) ==
    CASE status = "collecting" -> 1
      [] status = "awaiting_selection" -> 2
      [] status = "processing" -> 3
      [] status = "completed" -> 4

\* C22: the status of a session only moves forward (collecting ->
\* awaiting_selection -> processing -> completed); in particular no step takes
\* a stored record that is 'processing' back to 'collecting' or
\* 'awaiting_selection'.
C22_NoWayBackFromProcessing ==
    [][/\ \A sid \in DOMAIN store.sessions \cap DOMAIN store'.sessions :
             store.sessions[sid].status = "processing" =>
                StatusRank(store'.sessions[sid].status) >= StatusRank("processing")
       /\ \A i \in 1..Len(store.mem) :
             (store.mem[i].status = "processing"
                /\ MemIndex(store'.mem, store.mem[i].key) # 0) =>
                StatusRank(store'.mem[MemIndex(store'.mem, store.mem[i].key)].status)
                   >= StatusRank("processing")]_vars

-----------------------------------------------------------------------------
(* More claims about the rate limiter (SpecRateLimiter) *)

\* the timestamps of a deque that are not older than window_start
NotOlderThan(timestamps, window_start) ==
    SelectSeq(timestamps, LAMBDA t : ~(t < window_start))

\* the step is a call of check_rate_limit by u that returns False
RejectedStep(u) ==
    /\ Len(rl_log'[u]) = Len(rl_log[u]) + 1
    /\ ~rl_log'[u][Len(rl_log'[u])].allowed

\* C23: a rejected check_rate_limit call records nothing: when it returns, the
\* window of the user holds exactly the timestamps it held before the call
\* minus those older than now - window_seconds, the window of every other
\* user is as it was, and the idle sweep has not run (last_cleanup is as it
\* was and no user has been removed).
C23_RejectedCallRecordsNothing ==
    [][\A u \in Users :
          RejectedStep(u) =>
             /\ u \in DOMAIN user_requests'
             /\ user_requests'[u] =
                   NotOlderThan(WindowOf(user_requests, u), now - Secs(window_seconds))
             /\ \A v \in Users \ {u} :
                   /\ (v \in DOMAIN user_requests') = (v \in DOMAIN user_requests)
                   /\ WindowOf(user_requests', v) = WindowOf(user_requests, v)
             /\ last_cleanup' = last_cleanup]_vars

\* a call has just been rejected while another user has a window of its own,
\* after a pause of more than ten minutes has passed
C23_Witness ==
    \E u \in Users :
        /\ rl_log[u] # <<>>
        /\ ~rl_log[u][Len(rl_log[u])].allowed
        /\ rl_log[u][Len(rl_log[u])].at = now
        /\ rl_jumps > 0
        /\ \E v \in Users \ {u} : WindowOf(user_requests, v) # <<>>

\* the step has run the sweep of _cleanup_old_entries
SweepStep == last_cleanup' # last_cleanup

\* C24: right after an idle sweep has run, the limiter holds a window only
\* for users whose last request is at most 600 s old (no window whose newest
\* timestamp is older than now - 600 s and no window without any timestamp
\* of the last ten minutes is left), and the sweep comes at least 300 s
\* after the one before it.
C24_SweepLeavesActiveUsersOnly ==
    [][SweepStep =>
          /\ \A u \in DOMAIN user_requests' :
                /\ user_requests'[u] # <<>>
                /\ user_requests'[u][Len(user_requests'[u])]
                      >= now - Secs(inactive_seconds)
          /\ now - last_cleanup >= Secs(cleanup_interval)]_vars

-----------------------------------------------------------------------------
(* More claims about the task registries (SpecTasks) *)

\* of the registry, only the flag of the entry under t has changed
OnlyFlagSet(registry, registry_next, t) ==
    /\ DOMAIN registry_next = DOMAIN registry
    /\ \A x \in DOMAIN registry \ {t} : registry_next[x] = registry[x]
    /\ registry_next[t] = [registry[t] EXCEPT !.cancelled = TRUE]

\* every operation is where it was, with the files and the outcome it had
OperationsGoOn ==
    \A i \in OpIds : [ops'[i] EXCEPT !.cancel = ops[i].cancel] = ops[i]

\* C25: a cancel request on a registered task changes only the cancellation
\* flag of that task: the entry stays in the registry with its other fields
\* (progress, download path), no other entry of either registry changes, and
\* no operation moves, ends or loses a file in that step; an operation stops
\* only in a later step of its own, at a cancellation check.
C25_CancelSetsOnlyTheFlag ==
    [][\A t \in TaskIds :
          /\ (t \in DOMAIN active_tasks /\ CancelConvert(t))
                => /\ OnlyFlagSet(active_tasks, active_tasks', t)
                   /\ compress_active_tasks' = compress_active_tasks
                   /\ OperationsGoOn
          /\ (t \in DOMAIN compress_active_tasks /\ CancelCompress(t))
                => /\ OnlyFlagSet(compress_active_tasks, compress_active_tasks', t)
                   /\ active_tasks' = active_tasks
                   /\ OperationsGoOn]_vars

\* a compression that has stored its download path and is uploading has been
\* cancelled, while a conversion that is not cancelled is running beside it
C25_Witness ==
    \E i \in OpIds, j \in OpIds :
        /\ ops[i].kind = "compress"
        /\ ops[i].pc = "uploading"
        /\ ops[i].cancel = "set"
        /\ ops[i].task_id \in DOMAIN compress_active_tasks
        /\ compress_active_tasks[ops[i].task_id].cancelled
        /\ compress_active_tasks[ops[i].task_id].download_path # <<>>
        /\ last_cancel.answered
        /\ ops[j].kind \in {"photo", "doc"}
        /\ Running(ops[j])
        /\ ops[j].task_id \in DOMAIN active_tasks
        /\ ~active_tasks[ops[j].task_id].cancelled

\* the percentage operation i reports in this step lies in 0..100 and is not
\* below the one it reported before
ReportsInOrder(i) ==
    /\ Reported(ops'[i]) \in 0..100
    /\ Running(ops[i]) => Reported(ops'[i]) >= Reported(ops[i])

\* the entry of the task of operation i holds the percentage reported last
StoredIsReported(i) ==
    ops'[i].task_id \in DOMAIN RegistryOfNext(RegistryName(ops'[i])) =>
        RegistryOfNext(RegistryName(ops'[i]))[ops'[i].task_id].progress
           = Reported(ops'[i])

\* C26: the progress percentages an operation reports never decrease and lie
\* in 0..100, and the progress stored in the registry entry of the task is
\* the percentage that was reported last.
C26_ProgressMonotoneAndStored ==
    [][\A i \in OpIds :
          Running(ops'[i]) => (ReportsInOrder(i) /\ StoredIsReported(i))]_vars

-----------------------------------------------------------------------------
(* More claims about the session storage (SpecBackends) *)

\* the step is an update_session_status call on a stored session, none of
\* whose requests has failed
StatusUpdateStep ==
    /\ driver'.calls_left # driver.calls_left
    /\ last_call'.op = "update_session_status"
    /\ ~last_call'.absent
    /\ ~last_call'.failed

\* a session kept in Redis has the status and its keys expire redis_ttl
\* seconds after t; its owner and items are what they were
RefreshedInRedis(session_id, status, t) ==
    LET before == redis_keys[SessionKey(session_id)]
        after == redis_keys'[SessionKey(session_id)]
    IN /\ SessionKey(session_id) \in DOMAIN redis_keys'
       /\ "status" \in DOMAIN after.value
       /\ after.value.status = status
       /\ after.expires_at = t + redis_ttl
       /\ after.value.user_id = before.value.user_id
       /\ after.value.images = before.value.images

\* a session kept by SupabaseStorage, as a row or as a memory entry, has the
\* status and was refreshed at t; its owner and items are what they were
RefreshedInStore(session_id, status, t) ==
    /\ session_id \in StoredSessions(store')
    /\ session_id \in DOMAIN store.sessions =>
          /\ session_id \in DOMAIN store'.sessions
          /\ store'.sessions[session_id].status = status
          /\ store'.sessions[session_id].updated_at = t
          /\ store'.sessions[session_id].user_id = store.sessions[session_id].user_id
    /\ MemIndex(store.mem, MemKey(session_id)) # 0 =>
          LET before == store.mem[MemIndex(store.mem, MemKey(session_id))]
              i == MemIndex(store'.mem, MemKey(session_id))
          IN /\ i # 0
             /\ store'.mem[i].status = status
             /\ store'.mem[i].created_at = t
             /\ store'.mem[i].user_id = before.user_id
             /\ store'.mem[i].images = before.images
    /\ store'.images = store.images
    /\ store'.blobs = store.blobs

\* C27: a status update on a stored session, when no request fails, sets the
\* status of the session to the given value and its last-refresh time to the
\* current time, so that it expires a full lifetime from now, whether the
\* session is kept in Redis or by SupabaseStorage; the owner and the items
\* of the session stay as they were.
C27_StatusUpdateRefreshes ==
    [][StatusUpdateStep =>
          LET session_id == last_call'.args[1]
              status == last_call'.args[2]
          IN IF get(redis_keys, SessionKey(session_id), clock) # None
             THEN RefreshedInRedis(session_id, status, clock)
             ELSE RefreshedInStore(session_id, status, clock)]_vars

\* the step is a cleanup_old_sessions call none of whose requests has failed
CleanupStep ==
    /\ driver'.calls_left # driver.calls_left
    /\ last_call'.op = "cleanup_old_sessions"
    /\ ~last_call'.failed

\* the sessions with status 'completed', rows and memory entries
Completed(st) ==
    {sid \in DOMAIN st.sessions : st.sessions[sid].status = "completed"}
    \cup {MemSessionId(st.mem[i].key) :
            i \in {j \in 1..Len(st.mem) : st.mem[j].status = "completed"}}

\* C28: when a cleanup cycle of the sessions has run, no session with status
\* 'completed' is left, neither in the table nor in the in-memory store,
\* whatever its age.
C28_NoCompletedSessionAfterCleanup ==
    [][CleanupStep => Completed(store') = {}]_vars

\* the step is a cleanup_old_sessions call, with or without a failed request
CleanupCycle ==
    /\ driver'.calls_left # driver.calls_left
    /\ last_call'.op = "cleanup_old_sessions"

\* the stored sessions created more than session_ttl seconds before t
Expired(st, t) ==
    {sid \in DOMAIN st.sessions : t - st.sessions[sid].created_at > session_ttl}
    \cup {MemSessionId(st.mem[i].key) :
            i \in {j \in 1..Len(st.mem) : t - st.mem[j].created_at > session_ttl}}

\* C29: a failure inside a cleanup cycle does not stop the cycle: every
\* expired session is deleted by the cycle, also when another request of the
\* same cycle has failed.
C29_CleanupSurvivesFailures ==
    [][CleanupCycle => Expired(store, clock) \cap StoredSessions(store') = {}]_vars

-----------------------------------------------------------------------------
(* Claims about the folders of downloaded copies (SpecSessions) *)

\* the sessions that are stored with a status other than 'completed' and
\* were refreshed within the session TTL
ActiveSessions ==
    {sid \in StoredSessions(store) :
        StatusOf(sid) # "completed" /\ clock - LastRefresh(sid) <= session_ttl}

\* C30: a cycle of periodic_cleanup removes the folder
\* downloads/temp_sessions/<session id> only of a session that is not
\* active: the folder of a stored session that is collecting, awaiting
\* selection or processing is still there after the cycle.
C30_GcKeepsFoldersOfActiveSessions ==
    [][last_gc' # last_gc =>
          \A sid \in store.temp \cap ActiveSessions : sid \in store'.temp]_vars


\* the image is stored durably: a row of the session names a blob that holds it
StoredDurably(st, session_id, image) ==
    \E k \in 1..Len(st.images) :
        /\ st.images[k].session_id = session_id
        /\ st.images[k].image_path \in DOMAIN st.blobs
        /\ st.blobs[st.images[k].image_path] = image

\* every item get_session_images returns for the session is a copy fetched
\* from a blob or names a file that is in downloads/
ItemsResolve(st, session_id) ==
    \/ InTempFolder(st, session_id, "none")
    \/ \A k \in 1..Len(get_session_images(st, session_id, "none")) :
          get_session_images(st, session_id, "none")[k] \in st.files

\* the collect handler deletes the downloaded file of d
DeletesLocalCopy(d) ==
    /\ d \in downloads /\ d.pc = "added" /\ d \notin downloads'
    /\ d.image \in store.files /\ d.image \notin store'.files

\* C31: the collect handler deletes the local copy of an added image only when
\* the image is stored durably, and after such a step every item of every
\* session still stored resolves to a blob or to an existing file.
C31_LocalCopyDeletedOnlyWhenDurable ==
    [][\A d \in downloads :
          DeletesLocalCopy(d) =>
             /\ StoredDurably(store, d.session_id, d.image)
             /\ \A sid \in StoredSessions(store') : ItemsResolve(store', sid)]_vars


\* the build handler of b returns in this step
BuildReturns(b) == b \in creating /\ b \notin creating'

\* C32: when the build handler started by a page-size selection returns, the
\* session it worked on is no longer stored, so none stays in 'processing'.
C32_BuildLeavesNoSession ==
    [][\A b \in creating :
          BuildReturns(b) => b.session_id \notin StoredSessions(store')]_vars


\* a check_rate_limit call of this step has returned allowed
AdmittedNow ==
    \E u \in Users :
        /\ Len(rl_log'[u]) = Len(rl_log[u]) + 1
        /\ rl_log'[u][Len(rl_log'[u])].allowed

\* a check_rate_limit call of this step has returned a wait
RejectedNow ==
    \E u \in Users :
        /\ Len(rl_log'[u]) = Len(rl_log[u]) + 1
        /\ ~rl_log'[u][Len(rl_log'[u])].allowed

\* C33: a step that starts an operation or registers a task id is a step in
\* which check_rate_limit has admitted the user, and a step in which it has
\* rejected the user leaves registries, operations and sessions as they were.
C33_NothingStartsWithoutAdmission ==
    [][/\ (\/ \E i \in OpIds : Starts(i)
           \/ DOMAIN active_tasks' # DOMAIN active_tasks
              /\ DOMAIN active_tasks \subseteq DOMAIN active_tasks'
           \/ DOMAIN compress_active_tasks' # DOMAIN compress_active_tasks
              /\ DOMAIN compress_active_tasks \subseteq DOMAIN compress_active_tasks')
          => AdmittedNow
       /\ RejectedNow => UNCHANGED <<task_vars, storage_vars>>]_vars


\* C34: two operations that are running at the same time never have the same
\* task id in the same registry, so each has a registry entry of its own.
C34_RunningOperationsHaveOwnEntries ==
    \A i \in OpIds, j \in OpIds :
        (i # j /\ Running(ops[i]) /\ Running(ops[j])
         /\ RegistryName(ops[i]) = RegistryName(ops[j]))
        => ops[i].task_id # ops[j].task_id


\* C35: every wait a rejected check_rate_limit call returns is at least 1 and
\* at most windowSeconds + 1.
C35_WaitWithinBounds ==
    \A u \in Users :
        \A i \in 1..Len(rl_log[u]) :
            ~rl_log[u][i].allowed =>
                /\ 1 <= rl_log[u][i].wait
                /\ rl_log[u][i].wait <= window_seconds + 1

\* a user has been rejected at the instant of the admitted request, with the
\* largest wait, and again within the last second of the window, with wait 1
C35_Witness ==
    \E u \in Users :
        \E i \in 1..Len(rl_log[u]), j \in 1..Len(rl_log[u]) :
            /\ ~rl_log[u][i].allowed /\ rl_log[u][i].wait = window_seconds + 1
            /\ ~rl_log[u][j].allowed /\ rl_log[u][j].wait = 1
            /\ rl_log[u][j].at > rl_log[u][i].at


\* the items of the Redis record of a session, none without the record
RecordImages(keys, session_id) ==
    LET session_data == get(keys, SessionKey(session_id), clock)
    IN IF session_data = None THEN {}
       ELSE {session_data.images[k] : k \in 1..Len(session_data.images)}

\* caller c's add_image of the cache backend returns True in this step
AddReturnsTrue(c) ==
    /\ calls[c].op = "add_image" /\ calls[c].pc = "add_setex"
    /\ calls'[c] = NoCall
    /\ last_call'.result = TRUE

\* C36: in the cache backend, when an add_image call returns True the session
\* record holds its item and still holds every item with another order that
\* an earlier add_image had put there: no reported add is lost.
C36_NoAddIsLost ==
    [][\A c \in Callers :
          AddReturnsTrue(c) =>
             LET session_id == calls[c].args[1]
                 order == calls[c].args[3]
             IN /\ \E item \in RecordImages(redis_keys', session_id) : item.order = order
                /\ \A item \in RecordImages(redis_keys, session_id) :
                      item.order # order => item \in RecordImages(redis_keys', session_id)]_vars


\* the session records Redis holds
RecordedSessions == {sid \in SessionIds : SessionKey(sid) \in DOMAIN redis_keys}

\* the mapping key of the user names the session
MappedTo(keys, user_id, session_id) ==
    /\ UserSessionKey(user_id) \in DOMAIN keys
    /\ keys[UserSessionKey(user_id)].value = session_id

\* C37: in the cache backend, while no Redis command has failed, the setex of
\* add_image and of update_metadata re-creates no session record that is
\* gone, and delete_session(S) removes the mapping key of the owner only when
\* that key names S: mapping keys and session records keep naming each other.
C37_MappingAndRecordsAgree ==
    [][\A c \in Callers :
          faults_seen' = 0 =>
             /\ calls[c].pc \in {"add_setex", "metadata_setex"} =>
                   RecordedSessions' \subseteq RecordedSessions
             /\ (/\ calls[c].pc = "delete_mapping"
                 /\ UserSessionKey(calls[c].data.user_id) \in DOMAIN redis_keys
                 /\ UserSessionKey(calls[c].data.user_id) \notin DOMAIN redis_keys') =>
                   MappedTo(redis_keys, calls[c].data.user_id, calls[c].args[1])]_vars


\* the session the backend of the adapter holds for the user, as the
\* adapter's get_user_session would return it
AdapterUserSessions(user_id) ==
    IF Routed = "redis" THEN {get(redis_keys, UserSessionKey(user_id), clock)}
    ELSE IF Routed = "supabase" THEN get_user_session(store, user_id, "none")
    ELSE {None}

\* the images the backend of the adapter holds for the session
AdapterSessionImages(session_id) ==
    IF session_id = None THEN <<>>
    ELSE IF Routed = "redis" THEN RedisSessionImages(session_id)
    ELSE IF Routed = "supabase" THEN get_session_images(store, session_id, "none")
    ELSE <<>>

\* the Done handler has run in this step and no request of it has failed
DoneHandled ==
    /\ driver'.calls_left # driver.calls_left
    /\ last_call'.op = "done"
    /\ ~last_call'.failed

\* C38: the session and the images the Done handler finds for a user are the
\* session and the images the backend of the adapter holds for that user.
C38_HandlersUseTheAdaptersBackend ==
    [][DoneHandled =>
          /\ last_call'.result[1] \in AdapterUserSessions(last_call'.args[1])
          /\ last_call'.result[2] = AdapterSessionImages(last_call'.result[1])]_vars


\* C39: a cycle of periodic_cleanup removes no downloaded file of a
\* conversion or compression that is still running, no downloaded image of
\* a collect_image_handler call that has not returned, and no folder of
\* copies that a PDF build has fetched and not yet read.
C39_CleanupSparesFilesInUse ==
    [][(last_gc' # last_gc) =>
          /\ \A i \in OpIds :
                (Running(ops[i]) /\ ops[i].file = "there") => ops'[i].file = "there"
          /\ \A d \in downloads :
                d.image \in store.files => d.image \in store'.files
          /\ \A b \in creating :
                (b.in_folder /\ b.session_id \in store.temp)
                   => b.session_id \in store'.temp]_vars


\* a call that SupabaseStorage serves returns in this step, right after the
\* call that returned before it
NextStoreCall(before, after) ==
    /\ driver'.calls_left # driver.calls_left
    /\ last_call.op = before /\ last_call.routed = "supabase"
    /\ last_call'.op = after /\ last_call'.routed = "supabase"
    /\ ~last_call'.failed

\* C40: in the persistent backend, a get_user_session(user) that follows a
\* create_session(user) returns the id that call returned, also when the
\* session was put into the memory store; and a get_session_images that
\* follows an add_image on a stored session returns the item added.
C40_CreatedSessionIsFound ==
    [][/\ (/\ NextStoreCall("create_session", "get_user_session")
           /\ last_call'.args[1] = last_call.args[1])
          => last_call'.result = last_call.result
       /\ (/\ NextStoreCall("add_image", "get_session_images")
           /\ last_call'.args[1] = last_call.args[1]
           /\ last_call.args[1] \in StoredSessions(store))
          => \E k \in 1..Len(last_call'.result) :
                last_call'.result[k] = last_call.args[2]]_vars

====
